---------------------------- MODULE Spec2Model ----------------------------
(***************************************************************************)
(* Match list change detector: the change-detection cycle                  *)
(* (match_list_change_detector.py: main / MatchListChangeDetector.run) and *)
(* the persistent service that schedules it (persistent_service.py).       *)
(*                                                                         *)
(* Spec        : successive cycles of main() over one snapshot file, with  *)
(*               the external client, the downstream command and the file  *)
(*               system as nondeterministic collaborators.                 *)
(* SpecService : the scheduler loop and the HTTP /trigger handlers of one  *)
(*               service process, as concurrent execution contexts.        *)
(***************************************************************************)
EXTENDS Integers, Sequences, FiniteSets, TLC

(***************************************************************************)
(* Values.  A match is a record whose DOMAIN is the set of keys present in *)
(* the JSON object; dict.get(k) of a missing key is None.                  *)
(***************************************************************************)
None == "None"

Get(m, k) == IF k \in DOMAIN m THEN m[k] ELSE None

GetDefault(m, k, d) == IF k \in DOMAIN m THEN m[k] ELSE d

HasId(m) == "matchid" \in DOMAIN m

\* A decoded JSON document: a list of matches, or a (truthy) value that is
\* valid JSON but not a list of events, such as {"a": 1}.
JList(items) == [t |-> "list", items |-> items]

JObject == [t |-> "object", items |-> <<>>]

\* Python truthiness of a decoded document (`not self.previous_matches`).
Truthy(v) == IF v.t = "list" THEN Len(v.items) > 0 ELSE TRUE

\* Snapshot file on disk.
FileAbsent == [kind |-> "absent", val |-> JList(<<>>)]

\* Present but not parseable as JSON: empty (just truncated) or cut short.
FilePartial == [kind |-> "partial", val |-> JList(<<>>)]

FileJson(v) == [kind |-> "json", val |-> v]

(***************************************************************************)
(* Diff engine: MatchListChangeDetector.detect_changes                     *)
(***************************************************************************)
BasicKeys == <<"speldatum", "avsparkstid", "anlaggningnamn", "installd",
               "avbruten", "uppskjuten", "lag1lagid", "lag2lagid">>

\* {match["matchid"]: match for match in matches}: the last entry of an id wins.
Ids(matches) == {matches[i].matchid : i \in 1..Len(matches)}

LastIndex(matches, id) ==
    CHOOSE i \in 1..Len(matches) :
        /\ matches[i].matchid = id
        /\ \A j \in 1..Len(matches) : matches[j].matchid = id => j <= i

\* The lookup keyed by position in the list instead of by match id.
MatchesDictByPosition(matches) == [i \in 1..Len(matches) |-> matches[i]]

MatchesDict(matches) == [id \in Ids(matches) |-> matches[LastIndex(matches, id)]]

\* The comparison with the team names added to the compared fields.
basic_changes_with_names(prev_match, curr_match) ==
    \/ \E i \in 1..Len(BasicKeys) :
           Get(prev_match, BasicKeys[i]) # Get(curr_match, BasicKeys[i])
    \/ Get(prev_match, "lag1namn") # Get(curr_match, "lag1namn")
    \/ Get(prev_match, "lag2namn") # Get(curr_match, "lag2namn")

basic_changes(prev_match, curr_match) ==
    \E i \in 1..Len(BasicKeys) :
        Get(prev_match, BasicKeys[i]) # Get(curr_match, BasicKeys[i])

referee_ids(match) ==
    IF "domaruppdraglista" \in DOMAIN match
    THEN {Get(match.domaruppdraglista[i], "domareid") :
              i \in 1..Len(match.domaruppdraglista)}
    ELSE {}

\* The comparison made on the lists of referee ids, in their order.
referee_changes_ordered(prev_match, curr_match) ==
    LET id_list(match) ==
            IF "domaruppdraglista" \in DOMAIN match
            THEN [i \in 1..Len(match.domaruppdraglista) |->
                      Get(match.domaruppdraglista[i], "domareid")]
            ELSE <<>>
    IN id_list(prev_match) # id_list(curr_match)

referee_changes(prev_match, curr_match) ==
    referee_ids(prev_match) # referee_ids(curr_match)

referee_detail(referee) ==
    [id |-> Get(referee, "domareid"), name |-> Get(referee, "personnamn"),
     role |-> Get(referee, "domarrollnamn"), email |-> Get(referee, "epostadress"),
     phone |-> Get(referee, "mobiltelefon")]

referee_details(match) ==
    IF "domaruppdraglista" \in DOMAIN match
    THEN [i \in 1..Len(match.domaruppdraglista) |->
              referee_detail(match.domaruppdraglista[i])]
    ELSE <<>>

capture(match) ==
    [date |-> Get(match, "speldatum"),
     time |-> Get(match, "avsparkstid"),
     home_team |-> [id |-> Get(match, "lag1lagid"), name |-> Get(match, "lag1namn")],
     away_team |-> [id |-> Get(match, "lag2lagid"), name |-> Get(match, "lag2namn")],
     venue |-> Get(match, "anlaggningnamn"),
     status |-> [cancelled |-> GetDefault(match, "installd", "False"),
                 interrupted |-> GetDefault(match, "avbruten", "False"),
                 postponed |-> GetDefault(match, "uppskjuten", "False")],
     referees |-> referee_details(match)]

change_record(match_id, prev_match, curr_match) ==
    [match_id |-> match_id,
     match_nr |-> Get(curr_match, "matchnr"),
     previous |-> capture(prev_match),
     current |-> capture(curr_match),
     changes |-> [basic |-> basic_changes(prev_match, curr_match),
                  referees |-> referee_changes(prev_match, curr_match)]]

\* Iteration over a Python set: some order, each element once.
RECURSIVE SetToSeq(_)
SetToSeq(S) ==
    IF S = {} THEN <<>>
    ELSE LET x == CHOOSE y \in S : TRUE IN <<x>> \o SetToSeq(S \ {x})

\* The dict comprehensions raise (TypeError / KeyError) unless both documents
\* are lists whose entries all carry "matchid".
Indexable(v) == v.t = "list" /\ \A i \in 1..Len(v.items) : HasId(v.items[i])

\* len(self.current_matches)
PyLen(v) == IF v.t = "list" THEN Len(v.items) ELSE 1

\* Every current id counted as new.
new_match_ids_all(prev_matches_dict, curr_matches_dict) == DOMAIN curr_matches_dict

\* A record appended for every common match.
emits_record_always(prev_match, curr_match) == TRUE

\* has_changes decided without the changed matches.
any_changes_ignoring_changed(new_count, removed_count, changed_count) ==
    new_count > 0 \/ removed_count > 0

\* The first fetch reported with the number of distinct ids.
initial_fetch_distinct_ids(current_matches) ==
    [raised |-> FALSE, has_changes |-> TRUE,
     changes |-> [new_matches |-> Cardinality(Ids(current_matches.items)),
                  message |-> "Initial match list fetch"]]

\* set(curr_matches_dict.keys()) - set(prev_matches_dict.keys())
new_match_ids(prev_matches_dict, curr_matches_dict) ==
    DOMAIN curr_matches_dict \ DOMAIN prev_matches_dict

removed_match_ids(prev_matches_dict, curr_matches_dict) ==
    DOMAIN prev_matches_dict \ DOMAIN curr_matches_dict

common_match_ids(prev_matches_dict, curr_matches_dict) ==
    DOMAIN curr_matches_dict \cap DOMAIN prev_matches_dict

\* `if basic_changes or referee_changes:` a change record is appended.
emits_record(prev_match, curr_match) ==
    basic_changes(prev_match, curr_match) \/ referee_changes(prev_match, curr_match)

\* has_changes = len(new) > 0 or len(removed) > 0 or len(changed) > 0
any_changes(new_count, removed_count, changed_count) ==
    new_count > 0 \/ removed_count > 0 \/ changed_count > 0

\* The return value when there is no previous list to compare with.
initial_fetch(current_matches) ==
    [raised |-> FALSE, has_changes |-> TRUE,
     changes |-> [new_matches |-> PyLen(current_matches),
                  message |-> "Initial match list fetch"]]

detect_changes(previous_matches, current_matches) ==
    IF ~Truthy(previous_matches)
    THEN initial_fetch(current_matches)
    ELSE IF ~(Indexable(previous_matches) /\ Indexable(current_matches))
    THEN [raised |-> TRUE, has_changes |-> FALSE, changes |-> [new_matches |-> 0]]
    ELSE
      LET prev_matches_dict == MatchesDict(previous_matches.items)
          curr_matches_dict == MatchesDict(current_matches.items)
          new_ids == SetToSeq(new_match_ids(prev_matches_dict, curr_matches_dict))
          removed_ids ==
              SetToSeq(removed_match_ids(prev_matches_dict, curr_matches_dict))
          changed_ids ==
              SetToSeq({id \in common_match_ids(prev_matches_dict, curr_matches_dict) :
                           emits_record(prev_matches_dict[id], curr_matches_dict[id])})
          changed_matches ==
              [i \in 1..Len(changed_ids) |->
                  change_record(changed_ids[i],
                                prev_matches_dict[changed_ids[i]],
                                curr_matches_dict[changed_ids[i]])]
      IN [raised |-> FALSE,
          has_changes |-> any_changes(Len(new_ids), Len(removed_ids),
                                      Len(changed_matches)),
          changes |->
            [new_matches |-> Len(new_ids),
             removed_matches |-> Len(removed_ids),
             changed_matches |-> Len(changed_matches),
             new_match_details |->
                 [i \in 1..Len(new_ids) |-> curr_matches_dict[new_ids[i]]],
             removed_match_details |->
                 [i \in 1..Len(removed_ids) |-> prev_matches_dict[removed_ids[i]]],
             changed_match_details |-> changed_matches]]

(***************************************************************************)
(* Bounds and the inputs drawn from them                                   *)
(***************************************************************************)
\* Match ids the external source hands out.
NumIds == 1

\* Longest match list the external source returns.
MaxLen == 1

KickoffTimes == {"14:00", "15:00"}

\* Events as the external source returns them; one malformed event has no id.
WellFormedMatches == [matchid : 1..NumIds, avsparkstid : KickoffTimes]

MatchNoId == [avsparkstid |-> "14:00"]

FetchedMatches == WellFormedMatches \cup {MatchNoId}

RECURSIVE SeqsUpTo(_, _)
SeqsUpTo(S, n) ==
    IF n = 0 THEN {<<>>}
    ELSE SeqsUpTo(S, n - 1) \cup
         {Append(q, x) : q \in {r \in SeqsUpTo(S, n - 1) : Len(r) = n - 1}, x \in S}

FetchedLists == SeqsUpTo(FetchedMatches, MaxLen)

(***************************************************************************)
(* State                                                                   *)
(***************************************************************************)
VARIABLES
    \* ---- the change-detection cycle (match_list_change_detector.py) ----
    disk,              \* PREVIOUS_MATCHES_FILE as it is on disk
    credentials,       \* FOGIS_USERNAME and FOGIS_PASSWORD are both set
    METRICS_AVAILABLE, \* metrics is the Metrics object, not MockMetrics
    pc,                \* position of main()/run()
    previous_matches,  \* detector.previous_matches
    current_matches,   \* detector.current_matches
    has_changes,       \* first component of detect_changes()
    result,            \* what main() returned: "none", "True", "False"
    metrics,           \* increments of the metrics counters in this cycle
    cycle,             \* what this cycle observed and did (history)
    last,              \* outcome of the cycle before this one (history)
    \* ---- the persistent service (persistent_service.py) ----
    run_mode,          \* service.run_mode
    running,           \* service.running
    now,               \* wall clock, in seconds
    last_execution,    \* service.last_execution (NoTime: None)
    next_execution,    \* service.next_execution
    execution_count,   \* service.execution_count
    config,            \* service.config: FOGIS_USERNAME and FOGIS_PASSWORD
    cron_schedule,     \* service.cron_schedule
    server,            \* the HTTP server thread: "none", "serving", "should_exit", "stopped"
    ctx,               \* the execution contexts: scheduler loop and HTTP handlers
    \* ---- detect_changes called on its own (match_list_change_detector.py) ----
    diff_previous,     \* self.previous_matches of the call
    diff_current,      \* self.current_matches of the call
    diff_pc,           \* "input": not called yet; "returned": a call has returned
    diff_result,       \* what the latest call returned
    diff_first,        \* the first call's result; were the events reordered since
    \* ---- one RateLimiter (match_list_change_detector.py) ----
    max_requests,      \* limiter.max_requests
    time_window,       \* limiter.time_window
    request_timestamps,\* limiter.request_timestamps
    clock,             \* time.time()
    limiter_pc,        \* "ready", or "sleeping" inside wait_for_next_request
    call,              \* the latest call on the limiter and what it returned
    admitted           \* times of all admitted calls so far (history)

cycle_vars == <<disk, credentials, METRICS_AVAILABLE, pc, previous_matches, current_matches,
                has_changes, result, metrics, cycle, last>>

service_vars == <<config, run_mode, cron_schedule, running, server, now, last_execution,
                  next_execution, execution_count, ctx>>

diff_vars == <<diff_previous, diff_current, diff_pc, diff_result, diff_first>>

limiter_vars == <<max_requests, time_window, request_timestamps, clock,
                  limiter_pc, call, admitted>>

vars == <<cycle_vars, service_vars, diff_vars, limiter_vars>>


(***************************************************************************)
(* The cycle: main() -> MatchListChangeDetector.run()                      *)
(***************************************************************************)
MetricNames == {"run", "fetch_failure", "error", "matches", "changes",
                "orchestrator_trigger", "orchestrator_failure", "processing_time"}

ZeroMetrics == [n \in MetricNames |-> 0]

\* metrics.record_*(): one more increment of the named counters; every
\* attribute of MockMetrics is a function that does nothing.
Record(m, names) ==
    IF METRICS_AVAILABLE
    THEN [n \in MetricNames |-> IF n \in names THEN m[n] + 1 ELSE m[n]]
    ELSE m

NewCycle(file) ==
    [disk_at_start |-> file, load |-> "none", login |-> "none", fetch |-> "none",
     same_as_last |-> FALSE, detect |-> "none", trigger_calls |-> 0,
     trigger |-> "none", save_calls |-> 0, save |-> "none",
     client_login |-> "none", steps |-> <<>>]

NoLast == [result |-> "none", fetched |-> JList(<<>>)]

CycleInputs ==
    /\ disk \in {FileAbsent, FilePartial, FileJson(JObject)}
    /\ credentials \in BOOLEAN
    /\ pc = "idle"
    /\ previous_matches = JList(<<>>)
    /\ current_matches = JList(<<>>)
    /\ has_changes = FALSE
    /\ result = "none"
    /\ metrics = ZeroMetrics
    /\ cycle = NewCycle(disk)
    /\ last = NoLast

\* The import of line 53 succeeded: metrics is the Metrics object.
CycleInit == METRICS_AVAILABLE = TRUE /\ CycleInputs

\* Either the Metrics object or, after a failed import, MockMetrics.
CycleInitMetrics == METRICS_AVAILABLE \in BOOLEAN /\ CycleInputs

\* main(): the credentials check, then a fresh detector and the start of run().
StartCycle ==
    /\ pc = "idle"
    /\ cycle' = NewCycle(disk)
    /\ previous_matches' = JList(<<>>)
    /\ current_matches' = JList(<<>>)
    /\ has_changes' = FALSE
    /\ IF credentials
       THEN /\ pc' = "load"
            /\ result' = "none"
            /\ metrics' = Record(ZeroMetrics, {"run"})
       ELSE /\ pc' = "done"
            /\ result' = "False"
            /\ metrics' = ZeroMetrics
    /\ UNCHANGED <<disk, credentials, METRICS_AVAILABLE, last>>
    /\ UNCHANGED <<service_vars, diff_vars, limiter_vars>>

\* What load_previous_matches does with the file, given what the file system does.
load_outcome(file, io) ==
    IF io = "bad_path" THEN "bad_path"
    ELSE IF file.kind = "absent" THEN "absent"
    ELSE IF io = "read_error" THEN "read_error"
    ELSE IF file.kind = "partial" THEN "json_decode_error"
    ELSE "loaded"

load_previous_matches ==
    /\ pc = "load"
    /\ \E io \in {"ok", "bad_path", "read_error"} :
         LET o == load_outcome(disk, io) IN
         /\ previous_matches' = IF o = "loaded" THEN disk.val ELSE previous_matches
         /\ cycle' = [cycle EXCEPT !.load = o, !.steps = Append(@, "load")]
    /\ pc' = "login"
    /\ UNCHANGED <<disk, credentials, METRICS_AVAILABLE, current_matches, has_changes, result,
                   metrics, last>>
    /\ UNCHANGED <<service_vars, diff_vars, limiter_vars>>

\* run(), lines 578-582 and 615-618: fetch_current_matches returned False,
\* or an exception reached run()'s handler.
fetch_failed_metrics(m) == Record(m, {"fetch_failure", "error"})

\* Whether the result of api_client.login() lets fetch_current_matches go on:
\* only an exception stops it, the returned value is not looked at.
login_continues(r) == r # "raise"

\* Line 312: `with metrics.time_api_request():`. The Metrics object returns
\* an ApiRequestTimer; MockMetrics returns None, which is no context manager,
\* so the statement raises before its body runs.
time_api_request_enters(available) == available

\* fetch_current_matches, lines 308-314: admission wait, then login. r is
\* what the client answers to login(), if it is asked.
login ==
    /\ pc = "login"
    /\ \E r \in {"True", "False", "raise"} :
         /\ cycle' = [cycle EXCEPT
                !.client_login = r,
                !.login = IF time_api_request_enters(METRICS_AVAILABLE)
                          THEN r ELSE "none",
                !.steps = IF time_api_request_enters(METRICS_AVAILABLE)
                          THEN @ \o <<"admission", "authenticate">>
                          ELSE Append(@, "admission")]
         /\ IF time_api_request_enters(METRICS_AVAILABLE) /\ login_continues(r)
            THEN /\ pc' = "fetch"
                 /\ UNCHANGED <<result, metrics>>
            ELSE /\ pc' = "done"
                 /\ result' = "False"
                 /\ metrics' = fetch_failed_metrics(metrics)
    /\ UNCHANGED <<disk, credentials, METRICS_AVAILABLE, previous_matches, current_matches,
                   has_changes, last>>
    /\ UNCHANGED <<service_vars, diff_vars, limiter_vars>>

\* What the external client can answer to fetch_matches_list_json: a dict with
\* "matches" or a bare list; a dict whose "matches" is not a list; the client's
\* own error payload (status "error", no matches); anything else; an exception.
FetchResponses ==
    [shape : {"dict", "list"}, matches : {JList(q) : q \in FetchedLists}]
    \cup {[shape |-> "dict_not_list", matches |-> JObject],
          [shape |-> "error_payload", matches |-> JList(<<>>)],
          [shape |-> "unexpected", matches |-> JList(<<>>)],
          [shape |-> "raise", matches |-> JList(<<>>)]}

\* Lines 331-339: the list taken from the response.
response_matches(resp) ==
    IF resp.shape \in {"dict", "dict_not_list", "list", "error_payload"}
    THEN resp.matches
    ELSE JList(<<>>)

\* Whether fetch_current_matches returns True for this response.
fetch_succeeds(resp) == resp.shape # "raise"

\* fetch_current_matches, lines 323-344, and run(), lines 578-585.
fetch_current_matches ==
    /\ pc = "fetch"
    /\ \E resp \in FetchResponses :
         /\ cycle' = [cycle EXCEPT !.fetch = resp.shape,
                                   !.steps = @ \o <<"admission", "fetch">>,
                                   !.same_as_last =
                                       /\ fetch_succeeds(resp)
                                       /\ last.result = "True"
                                       /\ last.fetched = response_matches(resp)]
         /\ last' = [last EXCEPT !.fetched = JList(<<>>)]
         /\ IF fetch_succeeds(resp)
            THEN /\ current_matches' = response_matches(resp)
                 /\ pc' = "detect"
                 /\ metrics' = Record(metrics, {"matches"})
                 /\ UNCHANGED result
            ELSE /\ pc' = "done"
                 /\ result' = "False"
                 /\ metrics' = fetch_failed_metrics(metrics)
                 /\ UNCHANGED current_matches
    /\ UNCHANGED <<disk, credentials, METRICS_AVAILABLE, previous_matches, has_changes>>
    /\ UNCHANGED <<service_vars, diff_vars, limiter_vars>>

\* A run() that triggers on every cycle.
should_trigger_always(changed) == TRUE

\* run(), line 599: the trigger step runs iff changes were reported.
should_trigger(changed) == changed

\* run(), lines 587-596 and the handler of lines 615-618.
detect ==
    /\ pc = "detect"
    /\ LET d == detect_changes(previous_matches, current_matches) IN
         IF d.raised
         THEN /\ pc' = "done"
              /\ result' = "False"
              /\ metrics' = Record(metrics, {"error"})
              /\ cycle' = [cycle EXCEPT !.detect = "raised",
                                        !.steps = Append(@, "diff")]
              /\ UNCHANGED has_changes
         ELSE /\ has_changes' = d.has_changes
              /\ cycle' = [cycle EXCEPT
                     !.detect = IF d.has_changes THEN "changes" ELSE "no_changes",
                     !.steps = Append(@, "diff")]
              /\ metrics' = IF d.has_changes THEN Record(metrics, {"changes"})
                            ELSE metrics
              /\ pc' = IF should_trigger(d.has_changes) THEN "trigger" ELSE "save"
              /\ UNCHANGED result
    /\ UNCHANGED <<disk, credentials, METRICS_AVAILABLE, previous_matches, current_matches, last>>
    /\ UNCHANGED <<service_vars, diff_vars, limiter_vars>>

\* How one call of trigger_docker_compose can go.
TriggerOutcomes == {"compose_file_unset", "compose_file_missing", "no_executable",
                    "bad_changes_path", "changes_write_error", "launch_error",
                    "timeout", "exit_zero", "exit_nonzero"}

\* A trigger step that takes the expired wait for a failure.
trigger_timeout_fails(outcome) == outcome = "exit_zero"

\* The value trigger_docker_compose returns.
trigger_docker_compose(outcome) == outcome \in {"timeout", "exit_zero"}

\* A run() that gives up when the trigger step failed.
after_trigger_abort(ok) == IF ok THEN "save" ELSE "done"

\* run(), lines 602-606: whatever the trigger step returned, Persist is next.
after_trigger(ok) == "save"

\* run(), lines 599-603.
trigger ==
    /\ pc = "trigger"
    /\ \E o \in TriggerOutcomes :
         /\ cycle' = [cycle EXCEPT !.trigger_calls = @ + 1, !.trigger = o,
                                   !.steps = Append(@, "trigger")]
         /\ metrics' = IF trigger_docker_compose(o)
                       THEN Record(metrics, {"orchestrator_trigger"})
                       ELSE Record(metrics, {"orchestrator_trigger",
                                             "orchestrator_failure"})
         /\ pc' = after_trigger(trigger_docker_compose(o))
    /\ UNCHANGED <<disk, credentials, METRICS_AVAILABLE, previous_matches, current_matches,
                   has_changes, result, last>>
    /\ UNCHANGED <<service_vars, diff_vars, limiter_vars>>

\* A run() that reports a failed Persist as a failed cycle.
run_result_checked(saved) == IF saved THEN "True" ELSE "False"

\* run(), lines 606-613: the value of save_current_matches is not looked at.
run_result(saved) == "True"

\* save_current_matches up to open(file_path, "w"), which truncates the file.
save_open ==
    /\ pc = "save"
    /\ \E io \in {"ok", "bad_path", "open_error"} :
         IF io = "ok"
         THEN /\ disk' = FilePartial
              /\ pc' = "write"
              /\ cycle' = [cycle EXCEPT !.save_calls = @ + 1, !.save = "opened",
                                        !.steps = Append(@, "persist")]
              /\ UNCHANGED <<result, metrics>>
         ELSE /\ pc' = "done"
              /\ cycle' = [cycle EXCEPT !.save_calls = @ + 1, !.save = io,
                                        !.steps = Append(@, "persist")]
              /\ result' = run_result(FALSE)
              /\ metrics' = Record(metrics, {"processing_time"})
              /\ UNCHANGED disk
    /\ UNCHANGED <<credentials, METRICS_AVAILABLE, previous_matches, current_matches, has_changes, last>>
    /\ UNCHANGED <<service_vars, diff_vars, limiter_vars>>

\* json.dump into the opened file, then the rest of run().
save_write ==
    /\ pc = "write"
    /\ \E io \in {"ok", "write_error"} :
         /\ disk' = IF io = "ok" THEN FileJson(current_matches) ELSE disk
         /\ cycle' = [cycle EXCEPT !.save = IF io = "ok" THEN "saved" ELSE io]
         /\ result' = run_result(io = "ok")
    /\ metrics' = Record(metrics, {"processing_time"})
    /\ pc' = "done"
    /\ UNCHANGED <<credentials, METRICS_AVAILABLE, previous_matches, current_matches, has_changes, last>>
    /\ UNCHANGED <<service_vars, diff_vars, limiter_vars>>

\* main() returns to its caller; the detector and its lists are dropped.
finish ==
    /\ pc = "done"
    /\ pc' = "idle"
    /\ last' = [result |-> result, fetched |-> current_matches]
    /\ previous_matches' = JList(<<>>)
    /\ current_matches' = JList(<<>>)
    /\ has_changes' = FALSE
    /\ result' = "none"
    /\ metrics' = ZeroMetrics
    /\ cycle' = NewCycle(disk)
    /\ UNCHANGED <<disk, credentials, METRICS_AVAILABLE>>
    /\ UNCHANGED <<service_vars, diff_vars, limiter_vars>>

\* The process dies in the middle of a cycle; the file stays as it is.
crash ==
    /\ pc \notin {"idle", "done"}
    /\ pc' = "idle"
    /\ last' = NoLast
    /\ previous_matches' = JList(<<>>)
    /\ current_matches' = JList(<<>>)
    /\ has_changes' = FALSE
    /\ result' = "none"
    /\ metrics' = ZeroMetrics
    /\ cycle' = NewCycle(disk)
    /\ UNCHANGED <<disk, credentials, METRICS_AVAILABLE>>
    /\ UNCHANGED <<service_vars, diff_vars, limiter_vars>>

CycleNext ==
    \/ StartCycle
    \/ load_previous_matches
    \/ login
    \/ fetch_current_matches
    \/ detect
    \/ trigger
    \/ save_open
    \/ save_write
    \/ finish
    \/ crash


(***************************************************************************)
(* The persistent service: scheduler loop and HTTP control plane           *)
(***************************************************************************)
\* Concurrent POST /trigger requests considered.
NumHandlers == 1

\* The clock stops here.
MaxTime == 4

\* Cycles started in one run of the service.
MaxExecutions == 2

\* Seconds between two times of the cron schedule.
CronPeriod == 2

\* time.sleep(1) at the end of a loop iteration.
SleepSeconds == 1

\* time.sleep(30) after an exception in a loop iteration, scaled down to the
\* clock of the model (the code waits 30 seconds).
BackoffSeconds == 2

\* server_thread.join(timeout=5) in shutdown, scaled down to the clock of the
\* model (the code waits at most 5 seconds).
JoinTimeout == 2

NoTime == -1

Scheduler == 0

Handlers == 1..NumHandlers

Contexts == {Scheduler} \cup Handlers

\* The context of a GET /health request.
Probe == NumHandlers + 1

\* CRON_SCHEDULE: an expression croniter accepts and one it rejects.
Schedules == {"cron", "not a cron expression"}

\* No expression is rejected.
croniter_accepts_anything(schedule) == TRUE

\* _validate_cron_schedule, lines 67-69: croniter(...) raises on a bad expression.
croniter_accepts(schedule) == schedule = "cron"

\* croniter(schedule, base).get_next(): the first cron time after base.
NextCron(base) == ((base \div CronPeriod) + 1) * CronPeriod

\* No /health answer. A time that is None is written NoTime.
NoBody ==
    [status |-> "none", run_mode |-> "none", cron_schedule |-> "none",
     last_execution |-> NoTime, next_execution |-> NoTime, execution_count |-> 0]

\* An execution context: where it is (pc), the request it serves (op), the
\* execution_count it read (count), when its sleep or join ends (wake), its
\* exit or HTTP status, what main() returned, and a record of its latest
\* cycle: when it began (started), the next_execution the scheduler saw when
\* it decided to run it (due), how _execute_change_detection ended (outcome),
\* next_execution when it ended (next_after), the cycles run for the request
\* (ran), whether the loop has come back from its wait after an exception
\* (resumed), and the body of a /health answer.
NewContext(p) ==
    [pc |-> p, op |-> "none", count |-> 0, wake |-> 0, status |-> 0,
     result |-> "none", started |-> NoTime, due |-> NoTime, outcome |-> "none",
     next_after |-> NoTime, ran |-> 0, resumed |-> FALSE, body |-> NoBody]

\* Values of FOGIS_USERNAME and of FOGIS_PASSWORD: the empty default of
\* config.py and two values an operator may set.
CredentialValues == {"", "one", "other"}

Configs == [FOGIS_USERNAME : CredentialValues, FOGIS_PASSWORD : CredentialValues]

\* main(), lines 639-642: both credentials are set.
configured(c) == c.FOGIS_USERNAME # "" /\ c.FOGIS_PASSWORD # ""

\* One configuration with and one without credentials.
OneConfig ==
    config = IF credentials
             THEN [FOGIS_USERNAME |-> "one", FOGIS_PASSWORD |-> "one"]
             ELSE [FOGIS_USERNAME |-> "", FOGIS_PASSWORD |-> ""]

\* __init__, lines 38-60: the fields are set, the cron schedule is not yet
\* validated, no server thread exists.
ServiceInit ==
    /\ run_mode \in {"service", "oneshot"}
    /\ cron_schedule \in Schedules
    /\ running = TRUE
    /\ server = "none"
    /\ now = 0
    /\ last_execution = NoTime
    /\ next_execution = NoTime
    /\ execution_count = 0
    /\ ctx = [c \in Contexts \cup {Probe} |->
                IF c = Scheduler THEN NewContext("init") ELSE NewContext("idle")]

\* The process is still there: the constructor has not raised and the main
\* thread has not left run().
Alive == ctx[Scheduler].pc \notin {"failed", "stopped"}

\* The HTTP server takes requests.
Serving == Alive /\ server \in {"serving", "should_exit"}

\* A handler that called main() inline would hold the server's event loop
\* for the whole cycle.
holds_event_loop_inline(p) == p = "exec"

\* Lines 172-173: the handler awaits loop.run_in_executor(None, main); main()
\* runs on a worker thread and the server's event loop is given back until
\* it returns. No step of a handler keeps the loop across a state.
holds_event_loop(p) == FALSE

\* The server's event loop can take the next request.
LoopFree == \A h \in Handlers : ~holds_event_loop(ctx[h].pc)

\* Contexts whose cycle is running in the executor.
InFlight == {c \in Contexts : ctx[c].pc = "exec"}

\* Time passes, up to MaxTime and beyond it for as long as the main thread
\* sits in the join of the server thread; server_thread.join(timeout=5) does
\* not outlast its timeout.
Tick ==
    /\ now < MaxTime \/ ctx[Scheduler].pc = "shutdown"
    /\ ~(ctx[Scheduler].pc = "shutdown" /\ now >= ctx[Scheduler].wake)
    /\ now' = now + 1
    /\ UNCHANGED <<config, run_mode, cron_schedule, running, server, last_execution,
                   next_execution, execution_count, ctx>>
    /\ UNCHANGED <<cycle_vars, diff_vars, limiter_vars>>

\* __init__, line 63: _validate_cron_schedule sets next_execution or raises
\* ValueError, which ends the process before run() is called.
validate_cron_schedule ==
    /\ ctx[Scheduler].pc = "init"
    /\ IF croniter_accepts(cron_schedule)
       THEN /\ next_execution' = NextCron(now)
            /\ ctx' = [ctx EXCEPT ![Scheduler] =
                          [NewContext("constructed") EXCEPT !.started = now]]
       ELSE /\ next_execution' = next_execution
            /\ ctx' = [ctx EXCEPT ![Scheduler] =
                          [NewContext("failed") EXCEPT !.status = 1]]
    /\ UNCHANGED <<config, run_mode, cron_schedule, running, server, now, last_execution,
                   execution_count>>
    /\ UNCHANGED <<cycle_vars, diff_vars, limiter_vars>>

\* run(): the HTTP server thread is started, then the main thread enters
\* _run_as_service or _run_once.
run ==
    /\ ctx[Scheduler].pc = "constructed"
    /\ server' = "serving"
    /\ ctx' = [ctx EXCEPT ![Scheduler] =
                  NewContext(IF run_mode = "service" THEN "check" ELSE "start")]
    /\ UNCHANGED <<config, run_mode, cron_schedule, running, now, last_execution,
                   next_execution, execution_count>>
    /\ UNCHANGED <<cycle_vars, diff_vars, limiter_vars>>

\* _run_as_service, lines 231-241: one look at the clock.
is_due(t, next) == next # NoTime /\ t >= next

loop_check ==
    /\ ctx[Scheduler].pc = "check"
    /\ ctx' = [ctx EXCEPT ![Scheduler] =
                  IF ~running THEN NewContext("stopped")
                  ELSE IF is_due(now, next_execution)
                  THEN [NewContext("start") EXCEPT !.due = next_execution,
                                                   !.resumed = ctx[Scheduler].resumed]
                  ELSE [NewContext("sleep") EXCEPT !.wake = now + SleepSeconds,
                                                   !.resumed = ctx[Scheduler].resumed]]
    /\ UNCHANGED <<config, run_mode, cron_schedule, running, server, now, last_execution,
                   next_execution, execution_count>>
    /\ UNCHANGED <<cycle_vars, diff_vars, limiter_vars>>

\* time.sleep(...) returns.
loop_wake ==
    /\ ctx[Scheduler].pc \in {"sleep", "backoff"}
    /\ now >= ctx[Scheduler].wake
    /\ ctx' = [ctx EXCEPT ![Scheduler].pc = "check",
                          ![Scheduler].resumed = @ \/ ctx[Scheduler].pc = "backoff"]
    /\ UNCHANGED <<config, run_mode, cron_schedule, running, server, now, last_execution,
                   next_execution, execution_count>>
    /\ UNCHANGED <<cycle_vars, diff_vars, limiter_vars>>

\* manual_trigger, lines 109-110: the running check of POST /trigger.
trigger_status_when_stopped == 503

\* POST /trigger without the running check.
manual_trigger_unchecked(h) ==
    /\ Serving
    /\ ctx[h].pc = "idle"
    /\ ctx' = [ctx EXCEPT ![h] = [NewContext("start") EXCEPT !.op = "trigger"]]
    /\ UNCHANGED <<config, run_mode, cron_schedule, running, server, now, last_execution,
                   next_execution, execution_count>>
    /\ UNCHANGED <<cycle_vars, diff_vars, limiter_vars>>

manual_trigger(h) ==
    /\ Serving
    /\ ctx[h].pc = "idle"
    /\ ctx' = [ctx EXCEPT ![h] =
                  IF running
                  THEN [NewContext("start") EXCEPT !.op = "trigger"]
                  ELSE [NewContext("responded") EXCEPT
                            !.op = "trigger",
                            !.status = trigger_status_when_stopped]]
    /\ UNCHANGED <<config, run_mode, cron_schedule, running, server, now, last_execution,
                   next_execution, execution_count>>
    /\ UNCHANGED <<cycle_vars, diff_vars, limiter_vars>>

\* health_check, lines 89 and 103.
health_status(r) == IF r THEN "healthy" ELSE "unhealthy"

\* Every probe is answered 200.
health_status_code_ok(status) == 200

health_status_code(status) == IF status = "healthy" THEN 200 ELSE 503

\* health_check, lines 91-101, without service_name, uptime_seconds and
\* timestamp.
health_data ==
    [status |-> health_status(running), run_mode |-> run_mode,
     cron_schedule |-> cron_schedule, last_execution |-> last_execution,
     next_execution |-> next_execution, execution_count |-> execution_count]

health_check ==
    /\ Serving
    /\ LoopFree
    /\ ctx[Probe].pc = "idle"
    /\ ctx' = [ctx EXCEPT ![Probe] =
                  [NewContext("responded") EXCEPT
                       !.op = "health",
                       !.status = health_status_code(health_data.status),
                       !.body = health_data]]
    /\ UNCHANGED <<config, run_mode, cron_schedule, running, server, now, last_execution,
                   next_execution, execution_count>>
    /\ UNCHANGED <<cycle_vars, diff_vars, limiter_vars>>

status_configuration_with_password(c) ==
    [fogis_username |-> c.FOGIS_USERNAME,
     fogis_password_set |-> c.FOGIS_PASSWORD]

\* service_status, lines 132-137, without the bind host and port.
status_configuration(c) ==
    [fogis_username |-> c.FOGIS_USERNAME,
     fogis_password_set |-> c.FOGIS_PASSWORD # ""]

\* service_status, lines 123-138, without service_name and uptime_seconds.
service_status_data(c) ==
    [run_mode |-> run_mode, running |-> running, cron_schedule |-> cron_schedule,
     last_execution |-> last_execution, next_execution |-> next_execution,
     execution_count |-> execution_count,
     configuration |-> status_configuration(c)]

service_status ==
    /\ Serving
    /\ LoopFree
    /\ ctx[Probe].pc = "idle"
    /\ ctx' = [ctx EXCEPT ![Probe] =
                  [NewContext("responded") EXCEPT !.op = "status",
                                                  !.status = 200,
                                                  !.body = service_status_data(config)]]
    /\ UNCHANGED <<config, run_mode, cron_schedule, running, server, now,
                   last_execution, next_execution, execution_count>>
    /\ UNCHANGED <<cycle_vars, diff_vars, limiter_vars>>

\* _execute_change_detection, line 164 and the read of line 165.
execute_begin(c) ==
    /\ Alive
    /\ ctx[c].pc = "start"
    /\ execution_count < MaxExecutions
    /\ last_execution' = now
    /\ ctx' = [ctx EXCEPT ![c].pc = "count", ![c].count = execution_count,
                          ![c].started = IF c = Scheduler THEN now ELSE @]
    /\ UNCHANGED <<config, run_mode, cron_schedule, running, server, now, next_execution,
                   execution_count>>
    /\ UNCHANGED <<cycle_vars, diff_vars, limiter_vars>>

\* The write of line 165, then main() is handed to the executor (line 173).
execute_submit(c) ==
    /\ Alive
    /\ ctx[c].pc = "count"
    /\ execution_count' = ctx[c].count + 1
    /\ ctx' = [ctx EXCEPT ![c].pc = "exec", ![c].ran = @ + 1]
    /\ UNCHANGED <<config, run_mode, cron_schedule, running, server, now, last_execution,
                   next_execution>>
    /\ UNCHANGED <<cycle_vars, diff_vars, limiter_vars>>

\* What is kept of a context's cycle when the cycle is over.
Finished(new, old, how, next) ==
    [new EXCEPT !.op = old.op, !.started = old.started, !.due = old.due,
                !.ran = old.ran, !.outcome = how, !.next_after = next]

\* The loop ends on the first cycle that raises.
after_raise_stops(c, t) ==
    IF c = Scheduler
    THEN [NewContext("stopped") EXCEPT !.status = 1]
    ELSE [NewContext("responded") EXCEPT !.status = 500]

\* Where a context goes when _execute_change_detection raises.
after_raise(c, t) ==
    IF c = Scheduler
    THEN IF run_mode = "service"
         THEN [NewContext("backoff") EXCEPT !.wake = t + BackoffSeconds]
         ELSE [NewContext("stopped") EXCEPT !.status = 1]
    ELSE [NewContext("responded") EXCEPT !.status = 500]

\* main(), lines 640-659: without credentials it returns False at once.
main_outcomes(creds) == IF creds THEN {"True", "False", "raise"} ELSE {"False"}

\* main() ends in the executor: it returned True or False, or raised. The
\* loop's wait after an exception ends within the time considered.
execute_done(c) ==
    /\ Alive
    /\ ctx[c].pc = "exec"
    /\ \E r \in main_outcomes(credentials) :
         /\ (r = "raise" /\ c = Scheduler /\ run_mode = "service")
                => now + BackoffSeconds <= MaxTime
         /\ ctx' = [ctx EXCEPT ![c] =
                       IF r = "raise"
                       THEN Finished(after_raise(c, now), @, "raised", next_execution)
                       ELSE [@ EXCEPT !.pc = "update", !.result = r]]
    /\ UNCHANGED <<config, run_mode, cron_schedule, running, server, now, last_execution,
                   next_execution, execution_count>>
    /\ UNCHANGED <<cycle_vars, diff_vars, limiter_vars>>

\* POST /trigger answers according to what main() returned.
after_return_by_result(c, t, r) ==
    IF c = Scheduler
    THEN IF run_mode = "service"
         THEN [NewContext("sleep") EXCEPT !.wake = t + SleepSeconds, !.result = r]
         ELSE [NewContext("stopped") EXCEPT !.status = 0, !.result = r]
    ELSE [NewContext("responded") EXCEPT !.status = IF r = "True" THEN 200 ELSE 500,
                                         !.result = r]

\* Where a context goes when _execute_change_detection returns.
after_return(c, t, r) ==
    IF c = Scheduler
    THEN IF run_mode = "service"
         THEN [NewContext("sleep") EXCEPT !.wake = t + SleepSeconds, !.result = r]
         ELSE [NewContext("stopped") EXCEPT !.status = 0, !.result = r]
    ELSE [NewContext("responded") EXCEPT !.status = 200, !.result = r]

\* _execute_change_detection, lines 175-183.
execute_update(c) ==
    /\ Alive
    /\ ctx[c].pc = "update"
    /\ next_execution' = IF run_mode = "service" THEN NextCron(last_execution)
                         ELSE next_execution
    /\ ctx' = [ctx EXCEPT ![c] =
                  Finished(after_return(c, now, ctx[c].result), @, "returned",
                           next_execution')]
    /\ UNCHANGED <<config, run_mode, cron_schedule, running, server, now, last_execution,
                   execution_count>>
    /\ UNCHANGED <<cycle_vars, diff_vars, limiter_vars>>

\* The response has been sent; the handler can take the next request.
respond(h) ==
    /\ Alive
    /\ ctx[h].pc = "responded"
    /\ ctx' = [ctx EXCEPT ![h] = NewContext("idle")]
    /\ UNCHANGED <<config, run_mode, cron_schedule, running, server, now, last_execution,
                   next_execution, execution_count>>
    /\ UNCHANGED <<cycle_vars, diff_vars, limiter_vars>>

\* _signal_handler, lines 144-146, and shutdown, lines 152-158: SIGTERM or
\* SIGINT arrives in the main thread, which leaves whatever it was doing; the
\* server is told to exit and the main thread waits in join(timeout=5).
signal ==
    /\ running
    /\ ctx[Scheduler].pc \notin {"init", "failed", "stopped", "shutdown"}
    /\ running' = FALSE
    /\ server' = IF server = "serving" THEN "should_exit" ELSE server
    /\ ctx' = [ctx EXCEPT ![Scheduler] =
                  [NewContext("shutdown") EXCEPT !.started = now,
                                                 !.wake = now + JoinTimeout]]
    /\ UNCHANGED <<config, run_mode, cron_schedule, now, last_execution, next_execution,
                   execution_count>>
    /\ UNCHANGED <<cycle_vars, diff_vars, limiter_vars>>

\* uvicorn sees should_exit and, once no request is being served, its thread
\* ends.
server_stop ==
    /\ Alive
    /\ server = "should_exit"
    /\ \A h \in Handlers \cup {Probe} : ctx[h].pc = "idle"
    /\ server' = "stopped"
    /\ UNCHANGED <<config, run_mode, cron_schedule, running, now, last_execution,
                   next_execution, execution_count, ctx>>
    /\ UNCHANGED <<cycle_vars, diff_vars, limiter_vars>>

\* A join without a timeout.
join_without_timeout(srv, t, deadline) == srv \notin {"serving", "should_exit"}

\* shutdown, lines 157-158: there is nothing to join when no server thread
\* is alive; otherwise join returns when the thread ends or the timeout is up.
join_returns(srv, t, deadline) == srv \notin {"serving", "should_exit"} \/ t >= deadline

\* _signal_handler, line 147: sys.exit(0) after shutdown() has returned.
exit ==
    /\ ctx[Scheduler].pc = "shutdown"
    /\ join_returns(server, now, ctx[Scheduler].wake)
    /\ ctx' = [ctx EXCEPT ![Scheduler].pc = "stopped", ![Scheduler].status = 0]
    /\ UNCHANGED <<config, run_mode, cron_schedule, running, server, now, last_execution,
                   next_execution, execution_count>>
    /\ UNCHANGED <<cycle_vars, diff_vars, limiter_vars>>

ServiceNext ==
    \/ Tick
    \/ validate_cron_schedule
    \/ run
    \/ loop_check
    \/ loop_wake
    \/ \E h \in Handlers : manual_trigger(h)
    \/ \E c \in Contexts : execute_begin(c)
    \/ \E c \in Contexts : execute_submit(c)
    \/ \E c \in Contexts : execute_done(c)
    \/ \E c \in Contexts : execute_update(c)
    \/ \E h \in Handlers : respond(h)
    \/ signal
    \/ server_stop
    \/ exit

\* The HTTP control plane of a running service: POST /trigger, GET /health
\* and GET /status requests while the scheduler loop sleeps and no signal
\* arrives.
ControlNext ==
    \/ Tick
    \/ validate_cron_schedule
    \/ run
    \/ health_check
    \/ service_status
    \/ \E h \in Handlers : manual_trigger(h)
    \/ \E h \in Handlers : execute_begin(h)
    \/ \E h \in Handlers : execute_submit(h)
    \/ \E h \in Handlers : execute_done(h)
    \/ \E h \in Handlers : execute_update(h)
    \/ \E h \in Handlers \cup {Probe} : respond(h)

\* The scheduler loop on its own, observed through GET /health: no POST
\* /trigger request arrives.
SchedulerNext ==
    \/ Tick
    \/ validate_cron_schedule
    \/ run
    \/ loop_check
    \/ loop_wake
    \/ health_check
    \/ execute_begin(Scheduler)
    \/ execute_submit(Scheduler)
    \/ execute_done(Scheduler)
    \/ execute_update(Scheduler)
    \/ respond(Probe)
    \/ signal
    \/ server_stop
    \/ exit

\* The scheduler loop observed through GET /status.
StatusNext ==
    \/ Tick
    \/ validate_cron_schedule
    \/ run
    \/ loop_check
    \/ loop_wake
    \/ service_status
    \/ execute_begin(Scheduler)
    \/ execute_submit(Scheduler)
    \/ execute_done(Scheduler)
    \/ execute_update(Scheduler)
    \/ respond(Probe)
    \/ signal
    \/ server_stop
    \/ exit

\* The threads keep running: the main thread takes its next step, the clock
\* advances, the executor finishes main(), and a response that is ready is
\* sent. Requests and signals may or may not come, and uvicorn may or may not
\* stop in time.
SchedulerFairness ==
    /\ WF_vars(Tick)
    /\ WF_vars(validate_cron_schedule)
    /\ WF_vars(run)
    /\ WF_vars(loop_check)
    /\ WF_vars(loop_wake)
    /\ WF_vars(execute_begin(Scheduler))
    /\ WF_vars(execute_submit(Scheduler))
    /\ WF_vars(execute_done(Scheduler))
    /\ WF_vars(execute_update(Scheduler))
    /\ WF_vars(respond(Probe))
    /\ WF_vars(exit)

(***************************************************************************)
(* detect_changes on its own: two snapshots, built from two versions of    *)
(* each event, are handed to detect_changes; the call is then repeated on  *)
(* the same snapshots and on reorderings of them.                          *)
(***************************************************************************)
\* Match ids and longest snapshot where the snapshots differ in which events
\* they hold, how often and in which order (one field of an event may change).
DiffNumIds == 2

DiffMaxLen == 2

\* Match ids and longest snapshot where the events differ in any one field.
FieldNumIds == 1

FieldMaxLen == 1

Referee(id, name) ==
    [domareid |-> id, personnamn |-> name, domarrollnamn |-> "Huvuddomare",
     epostadress |-> "referee@example.com", mobiltelefon |-> "0700000000"]

\* A complete event, with the fields of the source's sample match.
BaseMatch(id) ==
    [matchid |-> id, matchnr |-> "000024032", speldatum |-> "2025-04-26",
     avsparkstid |-> "14:00", lag1lagid |-> "25650", lag1namn |-> "Home IK",
     lag2lagid |-> "25529", lag2namn |-> "Away FK", anlaggningnamn |-> "Kongevi 1",
     installd |-> "False", avbruten |-> "False", uppskjuten |-> "False",
     domaruppdraglista |-> <<Referee("6600", "First Referee"),
                             Referee("7700", "Second Referee")>>]

\* Fields that detect_changes carries into a record without comparing them.
CarriedKeys == {"matchnr", "lag1namn", "lag2namn"}

BasicKeySet == {BasicKeys[i] : i \in 1..Len(BasicKeys)}

RefereeEdits == {"permuted", "renamed", "replaced", "one_fewer", "empty"}

\* One way an event differs from the complete one.
Versions ==
    {[op |-> "same", key |-> "none"]}
    \cup [op : {"set"}, key : BasicKeySet \cup CarriedKeys]
    \cup [op : {"drop"}, key : {"speldatum", "installd", "domaruppdraglista"}]
    \cup [op : {"referees"}, key : RefereeEdits]

EditedReferees(edit) ==
    CASE edit = "permuted"  -> <<Referee("7700", "Second Referee"),
                                 Referee("6600", "First Referee")>>
      [] edit = "renamed"   -> <<Referee("6600", "New Name"),
                                 Referee("7700", "Second Referee")>>
      [] edit = "replaced"  -> <<Referee("6600", "First Referee"),
                                 Referee("8800", "Second Referee")>>
      [] edit = "one_fewer" -> <<Referee("6600", "First Referee")>>
      [] edit = "empty"     -> <<>>

Match(id, version) ==
    LET base == BaseMatch(id) IN
    CASE version.op = "same" -> base
      [] version.op = "set"  -> [base EXCEPT ![version.key] = "changed"]
      [] version.op = "drop" -> [k \in DOMAIN base \ {version.key} |-> base[k]]
      [] version.op = "referees" ->
             [base EXCEPT !.domaruppdraglista = EditedReferees(version.key)]

\* The version of the events of the previous snapshot, and the second version
\* that events of the current snapshot may have.
FieldPairs ==
    {<<[op |-> "same", key |-> "none"], v>> : v \in Versions}
    \cup {<<[op |-> "drop", key |-> "domaruppdraglista"],
            [op |-> "referees", key |-> "empty"]>>}

OrderPairs ==
    {<<[op |-> "same", key |-> "none"], [op |-> "set", key |-> "avsparkstid"]>>,
     <<[op |-> "set", key |-> "avsparkstid"], [op |-> "same", key |-> "none"]>>}

\* Snapshots of at most max_len events with the given ids and versions.
Snapshots(versions, num_ids, max_len) ==
    SeqsUpTo({Match(id, v) : id \in 1..num_ids, v \in versions}, max_len)

\* The pairs of a previous and a current snapshot that are compared.
SnapshotPairs ==
    UNION {Snapshots({pair[1]}, DiffNumIds, DiffMaxLen)
               \X Snapshots({pair[1], pair[2]}, DiffNumIds, DiffMaxLen) :
           pair \in OrderPairs}
    \cup
    UNION {Snapshots({pair[1]}, FieldNumIds, FieldMaxLen)
               \X Snapshots({pair[1], pair[2]}, FieldNumIds, FieldMaxLen) :
           pair \in FieldPairs}

\* The same events in another order.
Reorderings(matches) ==
    {[i \in 1..Len(matches) |-> matches[f[i]]] : f \in Permutations(1..Len(matches))}

NoResult ==
    [raised |-> FALSE, has_changes |-> FALSE, changes |-> [message |-> "not called"]]

\* No call has been made on these events yet.
NoFirst == [result |-> NoResult, reordered |-> FALSE]

DiffInit ==
    /\ \E pair \in SnapshotPairs :
           /\ diff_previous = JList(pair[1])
           /\ diff_current = JList(pair[2])
    /\ diff_pc = "input"
    /\ diff_result = NoResult
    /\ diff_first = NoFirst

\* has_changes, changes = self.detect_changes(): the first call on these events.
call_detect_changes ==
    /\ diff_pc = "input"
    /\ diff_result' = detect_changes(diff_previous, diff_current)
    /\ diff_first' = [result |-> diff_result', reordered |-> FALSE]
    /\ diff_pc' = "returned"
    /\ UNCHANGED <<diff_previous, diff_current>>
    /\ UNCHANGED <<cycle_vars, service_vars, limiter_vars>>

\* The call is repeated on the same two snapshots.
call_again ==
    /\ diff_pc = "returned"
    /\ diff_result' = detect_changes(diff_previous, diff_current)
    /\ UNCHANGED <<diff_previous, diff_current, diff_pc, diff_first>>
    /\ UNCHANGED <<cycle_vars, service_vars, limiter_vars>>

\* The call is repeated on the same events in another order.
call_reordered ==
    /\ diff_pc = "returned"
    /\ \/ /\ \E p \in Reorderings(diff_previous.items) \ {diff_previous.items} :
                 diff_previous' = JList(p)
          /\ UNCHANGED diff_current
       \/ /\ \E c \in Reorderings(diff_current.items) \ {diff_current.items} :
                 diff_current' = JList(c)
          /\ UNCHANGED diff_previous
    /\ diff_result' = detect_changes(diff_previous', diff_current')
    /\ diff_first' = [diff_first EXCEPT !.reordered = TRUE]
    /\ UNCHANGED diff_pc
    /\ UNCHANGED <<cycle_vars, service_vars, limiter_vars>>

DiffNext ==
    \/ call_detect_changes
    \/ call_again
    \/ call_reordered

\* detect_changes is not being exercised on its own.
NoDiff ==
    /\ diff_previous = JList(<<>>)
    /\ diff_current = JList(<<>>)
    /\ diff_pc = "input"
    /\ diff_result = NoResult
    /\ diff_first = NoFirst

(***************************************************************************)
(* RateLimiter.  Time is counted in units of the 0.1 s buffer that          *)
(* wait_for_next_request adds to its wait; the window is scaled down.       *)
(***************************************************************************)
\* Largest max_requests a limiter is built with.
MaxRequests == 2

\* Longest time_window, in time units.
MaxWindow == 3

\* The clock stops advancing on its own here.
LimiterMaxTime == 6

\* time.sleep() may return this much later than asked.
MaxOversleep == 1

\* `+ 0.1  # Add a small buffer`: one time unit.
Buffer == 1

\* [ts for ts in self.request_timestamps if current_time - ts < self.time_window]
fresh(timestamps, current_time, window) ==
    SelectSeq(timestamps, LAMBDA ts : current_time - ts < window)

\* len(self.request_timestamps) < self.max_requests
under_limit_inclusive(count, limit) == count <= limit

under_limit(count, limit) == count < limit

\* can_make_request(): the pruned list, with the current time appended on admission.
admit(timestamps, current_time, limit, window) ==
    LET kept == fresh(timestamps, current_time, window) IN
    IF under_limit(Len(kept), limit)
    THEN [ok |-> TRUE, timestamps |-> Append(kept, current_time)]
    ELSE [ok |-> FALSE, timestamps |-> kept]

wait_time_no_buffer(timestamps, current_time, window) ==
    window - (current_time - timestamps[1])

\* self.time_window - (current_time - oldest_timestamp) + 0.1
wait_time(timestamps, current_time, window) ==
    window - (current_time - timestamps[1]) + Buffer

append_only(timestamps, current_time) == Append(timestamps, current_time)

\* self.request_timestamps.pop(0); self.request_timestamps.append(time.time())
replace_oldest(timestamps, current_time) == Append(Tail(timestamps), current_time)

NoCall ==
    [op |-> "none", at |-> 0, before |-> <<>>, history |-> <<>>, ok |-> FALSE,
     waited |-> 0, woke |-> 0, done |-> TRUE]

LimiterInit ==
    /\ max_requests \in 1..MaxRequests
    /\ time_window \in 2..MaxWindow
    /\ request_timestamps = <<>>
    /\ clock = 0
    /\ limiter_pc = "ready"
    /\ call = NoCall
    /\ admitted = <<>>

\* Time passes between two calls.
advance_time ==
    /\ limiter_pc = "ready"
    /\ clock < LimiterMaxTime
    /\ clock' = clock + 1
    /\ UNCHANGED <<max_requests, time_window, request_timestamps, limiter_pc,
                   call, admitted>>
    /\ UNCHANGED <<cycle_vars, service_vars, diff_vars>>

can_make_request ==
    /\ limiter_pc = "ready"
    /\ LET r == admit(request_timestamps, clock, max_requests, time_window) IN
         /\ request_timestamps' = r.timestamps
         /\ admitted' = IF r.ok THEN Append(admitted, clock) ELSE admitted
         /\ call' = [op |-> "can_make_request", at |-> clock,
                     before |-> request_timestamps, history |-> admitted,
                     ok |-> r.ok, waited |-> 0, woke |-> clock, done |-> TRUE]
    /\ UNCHANGED <<max_requests, time_window, clock, limiter_pc>>
    /\ UNCHANGED <<cycle_vars, service_vars, diff_vars>>

\* wait_for_next_request() up to its return of 0.0 or its time.sleep(wait_time).
wait_for_next_request ==
    /\ limiter_pc = "ready"
    /\ clock <= LimiterMaxTime
    /\ LET r == admit(request_timestamps, clock, max_requests, time_window) IN
         /\ request_timestamps' = r.timestamps
         /\ admitted' = IF r.ok THEN Append(admitted, clock) ELSE admitted
         /\ limiter_pc' = IF r.ok THEN "ready" ELSE "sleeping"
         /\ call' = [op |-> "wait_for_next_request", at |-> clock,
                     before |-> request_timestamps, history |-> admitted,
                     ok |-> r.ok,
                     waited |-> IF r.ok THEN 0
                                ELSE wait_time(r.timestamps, clock, time_window),
                     woke |-> clock, done |-> r.ok]
    /\ UNCHANGED <<max_requests, time_window, clock>>
    /\ UNCHANGED <<cycle_vars, service_vars, diff_vars>>

\* time.sleep(wait_time) returns; the oldest timestamp is replaced and
\* wait_for_next_request returns wait_time.
wake ==
    /\ limiter_pc = "sleeping"
    /\ \E late \in 0..MaxOversleep : clock' = clock + call.waited + late
    /\ request_timestamps' = replace_oldest(request_timestamps, clock')
    /\ admitted' = Append(admitted, clock')
    /\ call' = [call EXCEPT !.woke = clock', !.done = TRUE]
    /\ limiter_pc' = "ready"
    /\ UNCHANGED <<max_requests, time_window>>
    /\ UNCHANGED <<cycle_vars, service_vars, diff_vars>>

LimiterNext ==
    \/ advance_time
    \/ can_make_request
    \/ wait_for_next_request
    \/ wake

\* Outbound calls of one process considered.
MaxOutbound == 4

\* main(), line 648: every cycle constructs a MatchListChangeDetector, whose
\* __init__ (lines 258-259) constructs a RateLimiter of its own, with an empty
\* request_timestamps list. The calls admitted so far stay in the history.
new_detector ==
    /\ limiter_pc = "ready"
    /\ Len(admitted) < MaxOutbound
    /\ request_timestamps' = <<>>
    /\ call' = [NoCall EXCEPT !.op = "__init__", !.at = clock, !.woke = clock,
                              !.before = request_timestamps, !.history = admitted]
    /\ UNCHANGED <<max_requests, time_window, clock, limiter_pc, admitted>>
    /\ UNCHANGED <<cycle_vars, service_vars, diff_vars>>

\* The outbound calls of a process: each cycle builds its detector and asks
\* its limiter before login and before the fetch (lines 309 and 324).
ProcessNext ==
    \/ advance_time
    \/ new_detector
    \/ wait_for_next_request
    \/ wake

\* No limiter is being exercised on its own.
NoLimiter ==
    /\ max_requests = 1
    /\ time_window = 2
    /\ request_timestamps = <<>>
    /\ clock = 0
    /\ limiter_pc = "ready"
    /\ call = NoCall
    /\ admitted = <<>>

(***************************************************************************)
(* Specifications                                                          *)
(***************************************************************************)
\* The cycle on its own: no service around it.
NoService ==
    /\ OneConfig
    /\ run_mode = "oneshot"
    /\ cron_schedule = "cron"
    /\ running = TRUE
    /\ server = "none"
    /\ now = 0
    /\ last_execution = NoTime
    /\ next_execution = NextCron(0)
    /\ execution_count = 0
    /\ ctx = [c \in Contexts \cup {Probe} |-> NewContext("idle")]

Init == CycleInit /\ NoService /\ NoDiff /\ NoLimiter

Next == CycleNext

Spec == Init /\ [][Next]_vars

\* No cycle of the detector is being followed step by step.
NoRun ==
    /\ METRICS_AVAILABLE = TRUE
    /\ disk = FileAbsent
    /\ pc = "idle"
    /\ previous_matches = JList(<<>>)
    /\ current_matches = JList(<<>>)
    /\ has_changes = FALSE
    /\ result = "none"
    /\ metrics = ZeroMetrics
    /\ cycle = NewCycle(disk)
    /\ last = NoLast

NoCycle ==
    /\ credentials = TRUE
    /\ NoRun

\* The service with or without FOGIS_USERNAME and FOGIS_PASSWORD.
ServiceCredentials ==
    /\ credentials \in BOOLEAN
    /\ NoRun

\* The service on its own: what main() does in the executor is left open.
InitService == NoCycle /\ OneConfig /\ ServiceInit /\ NoDiff /\ NoLimiter

InitScheduler == ServiceCredentials /\ OneConfig /\ ServiceInit /\ NoDiff /\ NoLimiter

\* The service under every configuration of the credentials.
InitStatus ==
    /\ config \in Configs
    /\ credentials = configured(config)
    /\ NoRun
    /\ ServiceInit
    /\ NoDiff
    /\ NoLimiter

SpecService == InitService /\ [][ServiceNext]_vars

\* The scheduler loop with health probes, with and without credentials.
SpecScheduler == InitScheduler /\ [][SchedulerNext]_vars

\* The service with all three endpoints in use.
SpecControl == InitService /\ [][ControlNext]_vars

\* A new deployment: there is no baseline file yet, so every later content
\* of the file was left there by a cycle.
InitFresh == CycleInit /\ disk = FileAbsent /\ NoService /\ NoDiff /\ NoLimiter

SpecFresh == InitFresh /\ [][CycleNext]_vars

\* The cycle with either metrics object.
InitMetrics == CycleInitMetrics /\ NoService /\ NoDiff /\ NoLimiter

SpecMetrics == InitMetrics /\ [][CycleNext]_vars

\* The scheduler loop with status requests, under every configuration.
SpecStatus == InitStatus /\ [][StatusNext]_vars

\* The same with its threads making progress.
SpecSchedulerFair == InitScheduler /\ [][SchedulerNext]_vars /\ SchedulerFairness

\* detect_changes on its own.
InitDiff == NoCycle /\ NoService /\ DiffInit /\ NoLimiter

SpecDiff == InitDiff /\ [][DiffNext]_vars

\* One RateLimiter on its own.
InitLimiter == NoCycle /\ NoService /\ NoDiff /\ LimiterInit

SpecLimiter == InitLimiter /\ [][LimiterNext]_vars

\* The limiters of the successive cycles of one process.
SpecProcess == InitLimiter /\ [][ProcessNext]_vars

(***************************************************************************)
(* Properties                                                              *)
(***************************************************************************)

\* C1: at most one cycle is in flight at any time: a POST /trigger arriving
\* while a scheduled cycle or another manual trigger runs is never executed
\* concurrently with it.
C1_SingleFlight == run_mode = "service" => Cardinality(InFlight) <= 1

\* The external client worked in this cycle: login() returned True and the
\* fetch returned a list of matches.
CleanFetch == cycle.login = "True" /\ cycle.fetch \in {"dict", "list"}

\* The cycle's authentication or fetch did not succeed: an exception, login()
\* returning False, an error-status payload or an unexpected response.
AuthOrFetchFailed ==
    \/ cycle.login \in {"False", "raise"}
    \/ cycle.fetch \in {"raise", "error_payload", "unexpected"}

\* C2: if authentication or the data fetch fails (exception or non-success
\* result), the cycle ends as failed without invoking Trigger or Persist.
C2_FailedFetchAborts ==
    AuthOrFetchFailed =>
        /\ cycle.trigger_calls = 0
        /\ cycle.save_calls = 0
        /\ pc = "done" => result = "False"

\* C3: whenever run() reports failure, the snapshot file has the content it had
\* at the start of that cycle, and neither the trigger nor the save was called.
C3_FailedRunLeavesBaseline ==
    (pc = "done" /\ result = "False") =>
        /\ disk = cycle.disk_at_start
        /\ cycle.trigger_calls = 0
        /\ cycle.save_calls = 0

\* A cycle over a persisted match list fails in its fetch.
C3_Witness ==
    /\ pc = "done"
    /\ result = "False"
    /\ cycle.fetch = "raise"
    /\ disk.kind = "json"
    /\ Truthy(disk.val)

\* C4: in every cycle whose fetch succeeds, the trigger is invoked exactly once
\* if detect_changes reports has_changes = true and not at all if it reports
\* has_changes = false (and never before detect_changes has reported).
C4_TriggerIffChanges ==
    /\ cycle.trigger_calls <= 1
    /\ cycle.detect \in {"none", "raised", "no_changes"} => cycle.trigger_calls = 0
    /\ (cycle.detect = "changes" /\ pc \in {"save", "write", "done"}) =>
           cycle.trigger_calls = 1
    /\ cycle.detect = "changes" <=> has_changes

\* A cycle over a persisted match list detected changes and has triggered once.
C4_Witness ==
    /\ pc = "done"
    /\ Truthy(previous_matches)
    /\ cycle.detect = "changes"
    /\ cycle.trigger_calls = 1

\* C5: if two consecutive cycles both succeed and fetch the same snapshot, the
\* second detects no changes and does not invoke the trigger, for every fetched
\* snapshot, the empty list included.  (Stated for a second cycle in which
\* every step worked and which loaded from the file exactly the list it then
\* fetched again.)
C5_RepeatedFetchNoTrigger ==
    (/\ pc = "done"
     /\ result = "True"
     /\ cycle.same_as_last
     /\ CleanFetch
     /\ cycle.load = "loaded"
     /\ cycle.disk_at_start = FileJson(current_matches)) =>
        /\ ~has_changes
        /\ cycle.trigger_calls = 0

\* C6: if persisting the new snapshot fails after a successful fetch, the cycle
\* is reported as failed.
C6_PersistFailureFailsCycle ==
    (/\ pc = "done"
     /\ CleanFetch
     /\ cycle.save \in {"bad_path", "open_error", "write_error"}) =>
        result = "False"

\* C7: Persist is all-or-nothing: at every point during and after a save the
\* snapshot file is the complete previous snapshot or the complete new one.
C7_PersistAllOrNothing ==
    (CleanFetch /\ cycle.save_calls > 0) =>
        disk \in {cycle.disk_at_start, FileJson(current_matches)}

\* The snapshot file does not hold a list of events with ids, or cannot be read.
BaselineUnusable ==
    \/ cycle.disk_at_start.kind # "json"
    \/ ~Indexable(cycle.disk_at_start.val)
    \/ cycle.load \in {"bad_path", "read_error"}

\* C8: loading the baseline never fails the cycle: with the file absent,
\* unreadable, not JSON or not a list of events, the cycle goes on with an empty
\* baseline and, given a successful fetch, reaches Persist and reports success.
C8_LoadNeverFailsCycle ==
    (pc = "done" /\ BaselineUnusable /\ CleanFetch) =>
        /\ previous_matches = JList(<<>>)
        /\ result = "True"
        /\ cycle.save_calls = 1

\* The cycle has run its Persist step: save_current_matches was called once,
\* run() returned success and, unless the file system refused the write, the
\* snapshot file holds exactly the fetched list.
PersistedAndSucceeded ==
    /\ result = "True"
    /\ cycle.save_calls = 1
    /\ cycle.save = "saved" => disk = FileJson(current_matches)
    /\ cycle.save = "saved" \/ disk \in {cycle.disk_at_start, FilePartial}

\* C9: if the downstream command exceeds the 30-second wait, the trigger step
\* counts as success (no orchestrator failure is recorded), the cycle reports
\* success and the new baseline is persisted.
C9_TimeoutIsSuccess ==
    cycle.trigger = "timeout" =>
        /\ metrics["orchestrator_failure"] = 0
        /\ metrics["orchestrator_trigger"] = 1
        /\ pc \in {"save", "write", "done"}
        /\ pc = "done" => PersistedAndSucceeded

\* The command timed out and the cycle ended with the fetched list on disk.
C9_Witness ==
    /\ pc = "done"
    /\ cycle.trigger = "timeout"
    /\ cycle.save = "saved"
    /\ result = "True"
    /\ disk = FileJson(current_matches)
    /\ disk # cycle.disk_at_start

\* The downstream command exited non-zero or could not be launched (no compose
\* file, no executable, no changes file, or the launch itself failed).
TriggerCommandFailed == cycle.trigger \in TriggerOutcomes \ {"timeout", "exit_zero"}

\* C10: if the downstream command exits non-zero or cannot be launched, the
\* trigger step reports failure and an orchestrator failure is recorded, but the
\* cycle still persists the new snapshot and reports success.
C10_TriggerFailureNotFatal ==
    TriggerCommandFailed =>
        /\ metrics["orchestrator_failure"] = 1
        /\ pc \in {"save", "write", "done"}
        /\ pc = "done" => PersistedAndSucceeded

\* The command exited non-zero and the cycle ended with the fetched list on disk.
C10_Witness ==
    /\ pc = "done"
    /\ cycle.trigger = "exit_nonzero"
    /\ metrics["orchestrator_failure"] = 1
    /\ cycle.save = "saved"
    /\ result = "True"
    /\ disk = FileJson(current_matches)
    /\ disk # cycle.disk_at_start

(***************************************************************************)
(* Properties of detect_changes (SpecDiff)                                 *)
(***************************************************************************)
\* detect_changes has returned from a comparison against a non-empty list.
Compared == diff_pc = "returned" /\ Truthy(diff_previous)

\* The authoritative version of an event in each snapshot.
PreviousEvent(id) == MatchesDict(diff_previous.items)[id]

CurrentEvent(id) == MatchesDict(diff_current.items)[id]

PreviousIds == Ids(diff_previous.items)

CurrentIds == Ids(diff_current.items)

\* The ids of the entries of a detail list.
NewDetailIds ==
    {diff_result.changes.new_match_details[i].matchid :
        i \in 1..Len(diff_result.changes.new_match_details)}

RemovedDetailIds ==
    {diff_result.changes.removed_match_details[i].matchid :
        i \in 1..Len(diff_result.changes.removed_match_details)}

ChangeRecords ==
    {diff_result.changes.changed_match_details[i] :
        i \in 1..Len(diff_result.changes.changed_match_details)}

ChangedDetailIds == {r.match_id : r \in ChangeRecords}

\* C11: for every non-empty snapshot A, detect_changes with previous = current
\* = A returns has_changes = false with new, removed and changed counts zero.
C11_SameSnapshotNoChanges ==
    (Compared /\ diff_current = diff_previous) =>
        /\ ~diff_result.raised
        /\ ~diff_result.has_changes
        /\ diff_result.changes.new_matches = 0
        /\ diff_result.changes.removed_matches = 0
        /\ diff_result.changes.changed_matches = 0

\* A snapshot of two different events was compared with itself.
C11_Witness ==
    /\ Compared
    /\ diff_current = diff_previous
    /\ Cardinality(PreviousIds) = 2
    /\ ~diff_result.has_changes

\* C12: for every pair of snapshots (previous non-empty) the new, removed and
\* common id sets are pairwise disjoint and their union is ids(previous) \cup
\* ids(current): new iff only in current, removed iff only in previous, common
\* iff in both; the detail lists name exactly the new and the removed ids.
C12_IdSetsPartition ==
    Compared =>
        LET new == new_match_ids(MatchesDict(diff_previous.items),
                                 MatchesDict(diff_current.items))
            removed == removed_match_ids(MatchesDict(diff_previous.items),
                                         MatchesDict(diff_current.items))
            common == common_match_ids(MatchesDict(diff_previous.items),
                                       MatchesDict(diff_current.items))
        IN /\ new \cap removed = {}
           /\ new \cap common = {}
           /\ removed \cap common = {}
           /\ new \cup removed \cup common = PreviousIds \cup CurrentIds
           /\ \A id \in PreviousIds \cup CurrentIds :
                  /\ id \in new <=> (id \in CurrentIds /\ id \notin PreviousIds)
                  /\ id \in removed <=> (id \in PreviousIds /\ id \notin CurrentIds)
                  /\ id \in common <=> (id \in PreviousIds /\ id \in CurrentIds)
           /\ NewDetailIds = new
           /\ RemovedDetailIds = removed

\* One id is in both snapshots and another one only in the current one.
C12_Witness ==
    /\ Compared
    /\ NewDetailIds # {}
    /\ RemovedDetailIds = {}
    /\ PreviousIds \cap CurrentIds # {}

\* At least one of date, kickoff time, venue name, cancelled, interrupted,
\* postponed, home team id, away team id differs between two versions.
ComparedFieldDiffers(prev_match, curr_match) ==
    \/ Get(prev_match, "speldatum") # Get(curr_match, "speldatum")
    \/ Get(prev_match, "avsparkstid") # Get(curr_match, "avsparkstid")
    \/ Get(prev_match, "anlaggningnamn") # Get(curr_match, "anlaggningnamn")
    \/ Get(prev_match, "installd") # Get(curr_match, "installd")
    \/ Get(prev_match, "avbruten") # Get(curr_match, "avbruten")
    \/ Get(prev_match, "uppskjuten") # Get(curr_match, "uppskjuten")
    \/ Get(prev_match, "lag1lagid") # Get(curr_match, "lag1lagid")
    \/ Get(prev_match, "lag2lagid") # Get(curr_match, "lag2lagid")

\* The set of official ids of an event; no list is the empty set.
OfficialIds(match) ==
    IF "domaruppdraglista" \in DOMAIN match
    THEN {match.domaruppdraglista[i].domareid : i \in 1..Len(match.domaruppdraglista)}
    ELSE {}

\* C13: for every event id present in both snapshots, basic_changed is true iff
\* at least one of the eight compared fields differs between the two versions;
\* a difference only in team names (or any other field) emits no change record.
C13_BasicChangedIffFieldDiffers ==
    Compared =>
        \A id \in PreviousIds \cap CurrentIds :
            /\ ComparedFieldDiffers(PreviousEvent(id), CurrentEvent(id)) <=>
                   \E r \in ChangeRecords : r.match_id = id /\ r.changes.basic
            /\ (/\ ~ComparedFieldDiffers(PreviousEvent(id), CurrentEvent(id))
                /\ OfficialIds(PreviousEvent(id)) = OfficialIds(CurrentEvent(id))) =>
                   id \notin ChangedDetailIds

\* A compared field differs and a record with the basic flag was emitted.
C13_Witness ==
    /\ Compared
    /\ \E r \in ChangeRecords : r.changes.basic /\ ~r.changes.referees

\* Two versions of an event differ, but in none of the eight compared fields
\* and not in their official ids, and no record was emitted for the event.
C13_WitnessNameOnly ==
    /\ Compared
    /\ \E id \in PreviousIds \cap CurrentIds :
           /\ PreviousEvent(id) # CurrentEvent(id)
           /\ Get(PreviousEvent(id), "lag1namn") # Get(CurrentEvent(id), "lag1namn")
           /\ id \notin ChangedDetailIds

\* The official ids of the two versions of a common event differ.
OfficialsDiffer(id) == OfficialIds(PreviousEvent(id)) # OfficialIds(CurrentEvent(id))

\* C14: officials_changed equals (set of previous official ids # set of current
\* official ids): a permuted officials list, or officials whose name, role,
\* email or phone changed under the same ids, give officials_changed = false,
\* and a missing officials list counts as the empty set.
C14_OfficialsComparedAsIdSets ==
    Compared =>
        /\ \A r \in ChangeRecords : r.changes.referees <=> OfficialsDiffer(r.match_id)
        /\ \A id \in PreviousIds \cap CurrentIds :
               OfficialsDiffer(id) => id \in ChangedDetailIds
        /\ \A id \in PreviousIds \cap CurrentIds :
               (/\ ~OfficialsDiffer(id)
                /\ ~ComparedFieldDiffers(PreviousEvent(id), CurrentEvent(id))) =>
                   id \notin ChangedDetailIds

\* The officials of a common event were reordered, or one was renamed, or the
\* list went from missing to empty, and no record was emitted for the event.
C14_Witness ==
    /\ Compared
    /\ \E id \in PreviousIds \cap CurrentIds :
           /\ IF /\ "domaruppdraglista" \in DOMAIN PreviousEvent(id)
                 /\ "domaruppdraglista" \in DOMAIN CurrentEvent(id)
              THEN PreviousEvent(id).domaruppdraglista #
                       CurrentEvent(id).domaruppdraglista
              ELSE DOMAIN PreviousEvent(id) # DOMAIN CurrentEvent(id)
           /\ ~OfficialsDiffer(id)
           /\ id \notin ChangedDetailIds

\* C15: when the previous snapshot is empty, detect_changes returns, for every
\* current snapshot, has_changes = true with new_count = len(current), a
\* message, and no detail lists.
C15_EmptyPreviousIsInitialFetch ==
    (diff_pc = "returned" /\ Len(diff_previous.items) = 0) =>
        /\ ~diff_result.raised
        /\ diff_result.has_changes
        /\ DOMAIN diff_result.changes = {"new_matches", "message"}
        /\ diff_result.changes.new_matches = Len(diff_current.items)

\* An empty previous snapshot was compared with a current one that holds the
\* same id twice.
C15_Witness ==
    /\ diff_pc = "returned"
    /\ Len(diff_previous.items) = 0
    /\ Len(diff_current.items) = 2
    /\ Cardinality(CurrentIds) = 1

\* The ids of the common events for which a record has to be emitted.
AffectedCommonIds ==
    {id \in PreviousIds \cap CurrentIds :
        \/ ComparedFieldDiffers(PreviousEvent(id), CurrentEvent(id))
        \/ OfficialsDiffer(id)}

\* C16: for a non-empty previous snapshot, the three counts equal the sizes of
\* new_ids, removed_ids and the emitted change records; each detail list has
\* exactly that many entries with every affected id exactly once; and
\* has_changes is true iff at least one of the three counts is greater than 0.
C16_CountsMatchDetails ==
    Compared =>
        LET changes == diff_result.changes IN
        /\ changes.new_matches = Cardinality(CurrentIds \ PreviousIds)
        /\ changes.removed_matches = Cardinality(PreviousIds \ CurrentIds)
        /\ changes.changed_matches = Cardinality(ChangeRecords)
        /\ Len(changes.new_match_details) = changes.new_matches
        /\ Len(changes.removed_match_details) = changes.removed_matches
        /\ Len(changes.changed_match_details) = changes.changed_matches
        /\ NewDetailIds = CurrentIds \ PreviousIds
        /\ RemovedDetailIds = PreviousIds \ CurrentIds
        /\ ChangedDetailIds = AffectedCommonIds
        /\ Cardinality(ChangedDetailIds) = changes.changed_matches
        /\ diff_result.has_changes <=>
               \/ changes.new_matches > 0
               \/ changes.removed_matches > 0
               \/ changes.changed_matches > 0

\* Only changed events: has_changes rests on the changed count alone.
C16_Witness ==
    /\ Compared
    /\ diff_result.has_changes
    /\ diff_result.changes.new_matches = 0
    /\ diff_result.changes.removed_matches = 0
    /\ diff_result.changes.changed_matches = 2

\* What a result says, whatever the order of its detail lists: has_changes, the
\* counts and the set content of each detail list.
Summary(r) ==
    IF "message" \in DOMAIN r.changes
    THEN [has_changes |-> r.has_changes, counts |-> r.changes,
          new |-> {}, removed |-> {}, changed |-> {}]
    ELSE [has_changes |-> r.has_changes,
          counts |-> [new_matches |-> r.changes.new_matches,
                      removed_matches |-> r.changes.removed_matches,
                      changed_matches |-> r.changes.changed_matches],
          new |-> {r.changes.new_match_details[i] :
                      i \in 1..Len(r.changes.new_match_details)},
          removed |-> {r.changes.removed_match_details[i] :
                          i \in 1..Len(r.changes.removed_match_details)},
          changed |-> {r.changes.changed_match_details[i] :
                          i \in 1..Len(r.changes.changed_match_details)}]

\* Every id occurs once in the snapshot.
UniqueIds(matches) == Cardinality(Ids(matches)) = Len(matches)

\* C17 as stated: the result (the counts and the set content of each detail
\* list) is the same for every permutation of the events inside the previous
\* and the current snapshot, and for repeated runs on the same two snapshots.
C17_OrderIndependent ==
    diff_pc = "returned" => Summary(diff_result) = Summary(diff_first.result)

\* C17, amended: the same, for snapshots in which every id occurs once.
C17_OrderIndependentUniqueIds ==
    (/\ diff_pc = "returned"
     /\ UniqueIds(diff_previous.items)
     /\ UniqueIds(diff_current.items)) =>
        Summary(diff_result) = Summary(diff_first.result)

\* Two snapshots of two events each, one of them changed, were compared again
\* in another order.
C17_Witness ==
    /\ Compared
    /\ diff_first.reordered
    /\ Cardinality(PreviousIds) = 2
    /\ Cardinality(CurrentIds) = 2
    /\ UniqueIds(diff_previous.items)
    /\ UniqueIds(diff_current.items)
    /\ diff_result.changes.changed_matches = 1

(***************************************************************************)
(* Properties of the RateLimiter (SpecLimiter)                             *)
(***************************************************************************)
\* The entries of a list of times that lie within the window that ends at t.
WithinWindow(times, t) == SelectSeq(times, LAMBDA ts : t - ts < time_window)

\* The list as it was when the latest call began, without the entries that
\* had left the window by then.
KeptAtCall == WithinWindow(call.before, call.at)

\* Admitted calls so far that lay within the window when the latest call began.
AdmittedInWindowAtCall == Len(WithinWindow(call.history, call.at))

\* C18: can_make_request returns true and records the current timestamp iff
\* fewer than max_requests recorded timestamps lie within the trailing
\* time_window, and otherwise returns false and records nothing: after
\* max_requests admitted calls inside one window the next call in that window is
\* refused, and once the window has fully elapsed admission succeeds again.
C18_AdmitIffUnderLimit ==
    call.op = "can_make_request" =>
        /\ call.ok <=> Len(KeptAtCall) < max_requests
        /\ call.ok <=> AdmittedInWindowAtCall < max_requests
        /\ call.ok => /\ request_timestamps = Append(KeptAtCall, call.at)
                      /\ admitted = Append(call.history, call.at)
        /\ ~call.ok => /\ request_timestamps = KeptAtCall
                       /\ admitted = call.history

\* With max_requests = 2, two calls were admitted and the next call within the
\* same window has been refused.
C18_Witness ==
    /\ call.op = "can_make_request"
    /\ ~call.ok
    /\ max_requests = 2
    /\ Len(call.history) = 2
    /\ request_timestamps = call.before

\* C19: after any sequence of can_make_request and wait_for_next_request
\* calls on one RateLimiter, the number of admitted calls inside any trailing
\* window of time_window is at most max_requests, and the recorded timestamp
\* list never holds more than max_requests entries.
C19_WindowBudget ==
    /\ Len(request_timestamps) <= max_requests
    /\ \A i \in 1..Len(admitted) :
           Cardinality({j \in 1..Len(admitted) :
                           /\ admitted[j] <= admitted[i]
                           /\ admitted[i] - admitted[j] < time_window})
               <= max_requests

\* A call had to wait and was admitted after its sleep; more calls have been
\* admitted than fit into one window.
C19_Witness ==
    /\ call.op = "wait_for_next_request"
    /\ call.done
    /\ ~call.ok
    /\ Len(admitted) > max_requests
    /\ Len(request_timestamps) = max_requests
    /\ max_requests = 2

\* C20: wait_for_next_request records the call and returns 0 without blocking
\* when admission succeeds; otherwise it blocks for time_window - (now -
\* oldest_timestamp) + epsilon, then replaces the oldest recorded timestamp with
\* the current time and returns that wait.  Timestamps older than the window
\* are pruned on every call.
C20_WaitForNextRequest ==
    /\ call.op = "wait_for_next_request" =>
           IF Len(KeptAtCall) < max_requests
           THEN /\ call.done
                /\ call.waited = 0
                /\ call.woke = call.at
                /\ request_timestamps = Append(KeptAtCall, call.at)
           ELSE /\ \A i \in 1..Len(KeptAtCall) : KeptAtCall[1] <= KeptAtCall[i]
                /\ call.waited = time_window - (call.at - KeptAtCall[1]) + Buffer
                /\ ~call.done => request_timestamps = KeptAtCall
                /\ call.done =>
                       /\ call.woke >= call.at + call.waited
                       /\ request_timestamps = Append(Tail(KeptAtCall), call.woke)
    /\ call.op # "none" =>
           \A i \in 1..Len(request_timestamps) :
               call.at - request_timestamps[i] < time_window

\* A call found the limiter full, slept, and returned its wait.
C20_Witness ==
    /\ call.op = "wait_for_next_request"
    /\ call.done
    /\ call.waited > Buffer
    /\ call.woke > call.at + call.waited
    /\ Len(request_timestamps) = 2
    /\ request_timestamps[2] = call.woke

\* C21: all outbound calls of a process are admitted against one shared
\* rate-limiter timestamp state: over the successive cycles of the process, no
\* call is admitted while max_requests earlier calls of the process lie less
\* than time_window before it.
C21_SharedBudget ==
    \A i \in 1..Len(admitted) :
        Cardinality({j \in 1..i : admitted[i] - admitted[j] < time_window})
            <= max_requests

\* C22: in service mode a scheduled cycle starts only when the clock has
\* reached next_execution, and when a scheduled cycle is over, whether main()
\* reported success or not, next_execution is the first cron time after the
\* time that cycle started.
C22_ScheduledCycleRecomputesNext ==
    run_mode = "service" =>
        /\ ctx[Scheduler].pc \in {"start", "count", "exec", "update"} =>
               ctx[Scheduler].due # NoTime
        /\ ctx[Scheduler].pc \in {"count", "exec", "update"} =>
               ctx[Scheduler].started >= ctx[Scheduler].due
        /\ ctx[Scheduler].outcome # "none" =>
               ctx[Scheduler].next_after = NextCron(ctx[Scheduler].started)

\* C23: no cycle failure ends the service loop. When an exception leaves a
\* loop iteration the loop waits BackoffSeconds and goes on; the main thread
\* of the service stops only once running is false; and while running stays
\* true the loop comes back from its wait and starts the cycle that is due
\* (as long as the run has cycles left to start).
C23_LoopSurvivesFailure ==
    /\ [](run_mode = "service" =>
            /\ ctx[Scheduler].pc = "stopped" => ~running
            /\ ctx[Scheduler].outcome = "raised" =>
                   /\ ctx[Scheduler].pc \in {"backoff", "check"}
                   /\ ctx[Scheduler].pc = "backoff" =>
                          ctx[Scheduler].wake >= ctx[Scheduler].started + BackoffSeconds)
    /\ (run_mode = "service" /\ ctx[Scheduler].pc = "backoff")
           ~> \/ ~running
              \/ execution_count >= MaxExecutions
              \/ ctx[Scheduler].resumed /\ ctx[Scheduler].pc = "count"

\* A scheduled cycle raised, the loop waited, and the due cycle has started.
C23_Witness ==
    /\ run_mode = "service"
    /\ running
    /\ ctx[Scheduler].resumed
    /\ ctx[Scheduler].pc = "count"
    /\ ctx[Scheduler].started >= CronPeriod + BackoffSeconds
    /\ execution_count < MaxExecutions

\* C24: a POST /trigger that arrives while running is false is answered with
\* 503 in the same step and runs no cycle: execution_count, last_execution,
\* next_execution and the baseline file are what they were, and a request
\* answered with 503 has run nothing.
C24_TriggerRefusedWhenStopped ==
    /\ [][\A h \in Handlers :
            (ctx[h].pc = "idle" /\ ctx'[h].op = "trigger" /\ ~running) =>
                /\ ctx'[h].pc = "responded"
                /\ ctx'[h].status = 503
                /\ UNCHANGED <<execution_count, last_execution, next_execution, disk>>]_vars
    /\ [](\A h \in Handlers :
            (ctx[h].op = "trigger" /\ ctx[h].status = 503) =>
                /\ ~running
                /\ ctx[h].ran = 0
                /\ ctx[h].outcome = "none")

\* The service has run a cycle, a signal has stopped it, and a POST /trigger
\* that came before the process was gone has been refused.
C24_Witness ==
    /\ ~running
    /\ Alive
    /\ execution_count = 1
    /\ last_execution # NoTime
    /\ \E h \in Handlers :
           /\ ctx[h].op = "trigger"
           /\ ctx[h].pc = "responded"
           /\ ctx[h].status = 503

\* C25: a POST /trigger that arrives while running is true goes straight to
\* _execute_change_detection, whatever next_execution is, and runs exactly one
\* cycle; it is answered with 200 exactly when that cycle's main() returned
\* and with 500 exactly when it raised, and the handler always ends in a
\* response.
C25_TriggerRunsOneCycle ==
    /\ [][\A h \in Handlers :
            (ctx[h].pc = "idle" /\ ctx'[h].op = "trigger" /\ running) =>
                ctx'[h].pc = "start"]_vars
    /\ [](\A h \in Handlers :
            ctx[h].op = "trigger" =>
                /\ ctx[h].pc \in {"start", "count", "exec", "update", "responded"}
                /\ ctx[h].ran <= 1
                /\ ctx[h].pc = "responded" => ctx[h].status \in {200, 500, 503}
                /\ (ctx[h].pc = "responded" /\ ctx[h].status # 503) => ctx[h].ran = 1
                /\ ctx[h].outcome = "returned" <=>
                       (ctx[h].pc = "responded" /\ ctx[h].status = 200)
                /\ ctx[h].outcome = "raised" <=>
                       (ctx[h].pc = "responded" /\ ctx[h].status = 500))

\* A POST /trigger came before the first cron time, ran the only cycle so far
\* and has been answered with 200.
C25_Witness ==
    /\ run_mode = "service"
    /\ running
    /\ execution_count = 1
    /\ last_execution # NoTime
    /\ last_execution < CronPeriod
    /\ \E h \in Handlers :
           /\ ctx[h].op = "trigger"
           /\ ctx[h].pc = "responded"
           /\ ctx[h].status = 200
           /\ ctx[h].ran = 1

\* C26: in one-shot mode the main thread runs exactly one cycle, and when it
\* has ended the exit status of the process is the success status exactly
\* when main() reported success.
C26_ExitStatusReflectsCycle ==
    (run_mode = "oneshot" /\ ctx[Scheduler].pc = "stopped"
                          /\ ctx[Scheduler].outcome # "none") =>
        /\ ctx[Scheduler].ran = 1
        /\ ctx[Scheduler].status = 0 <=> ctx[Scheduler].result = "True"

\* C27: with a cron expression that croniter rejects the constructor raises
\* before the HTTP server is started and before any cycle runs; with one
\* that it accepts, the constructor leaves next_execution at the first cron
\* time after the time of construction.
C27_InvalidCronFailsFast ==
    /\ cron_schedule # "cron" =>
           /\ ctx[Scheduler].pc \in {"init", "failed"}
           /\ server = "none"
           /\ execution_count = 0
           /\ last_execution = NoTime
           /\ next_execution = NoTime
           /\ \A c \in Contexts \cup {Probe} : c # Scheduler => ctx[c].pc = "idle"
    /\ ctx[Scheduler].pc = "failed" =>
           /\ cron_schedule # "cron"
           /\ ctx[Scheduler].status # 0
    /\ ctx[Scheduler].pc = "constructed" =>
           /\ cron_schedule = "cron"
           /\ next_execution > ctx[Scheduler].started
           /\ next_execution - ctx[Scheduler].started <= CronPeriod
           /\ next_execution % CronPeriod = 0

\* The constructor has raised on the rejected expression, some time after
\* the process started.
C27_Witness ==
    /\ cron_schedule # "cron"
    /\ ctx[Scheduler].pc = "failed"
    /\ now > 0

\* The constructor ran at a cron time and set next_execution to the one
\* after it.
C27_WitnessValid ==
    /\ ctx[Scheduler].pc = "constructed"
    /\ ctx[Scheduler].started = CronPeriod
    /\ next_execution = 2 * CronPeriod

\* C28: without credentials no cycle reports success, and in service mode
\* the main thread never enters its scheduling loop.
C28_MissingCredentialsFatal ==
    ~credentials =>
        /\ \A c \in Contexts : ctx[c].result # "True"
        /\ run_mode = "service" =>
               ctx[Scheduler].pc \notin {"check", "sleep", "start", "count",
                                         "exec", "update", "backoff"}

C30_HealthReportsState ==
    /\ [][(ctx[Probe].pc = "idle" /\ ctx'[Probe].op = "health") =>
             /\ ctx'[Probe].pc = "responded"
             /\ ctx'[Probe].status = IF running THEN 200 ELSE 503
             /\ ctx'[Probe].body.status = IF running THEN "healthy" ELSE "unhealthy"
             /\ ctx'[Probe].body.run_mode = run_mode
             /\ ctx'[Probe].body.cron_schedule = cron_schedule
             /\ ctx'[Probe].body.last_execution = last_execution
             /\ ctx'[Probe].body.next_execution = next_execution
             /\ ctx'[Probe].body.execution_count = execution_count]_vars
    /\ [](ctx[Probe].op = "health" =>
            /\ ctx[Probe].status = 200 <=> ctx[Probe].body.status = "healthy"
            /\ ctx[Probe].status = 503 <=> ctx[Probe].body.status = "unhealthy")

\* A probe that came after the signal has been answered 503 "unhealthy",
\* with the cycle the service ran in its body.
C30_Witness ==
    /\ ~running
    /\ ctx[Probe].op = "health"
    /\ ctx[Probe].pc = "responded"
    /\ ctx[Probe].status = 503
    /\ ctx[Probe].body.status = "unhealthy"
    /\ ctx[Probe].body.execution_count = 1
    /\ ctx[Probe].body.last_execution = last_execution
    /\ last_execution # NoTime

\* A probe has been answered 200 "healthy" between two cycles.
C30_WitnessHealthy ==
    /\ running
    /\ ctx[Probe].pc = "responded"
    /\ ctx[Probe].status = 200
    /\ ctx[Probe].body.status = "healthy"
    /\ ctx[Probe].body.execution_count = 1
    /\ ctx[Probe].body.next_execution > ctx[Probe].body.last_execution

\* The configurations that set or leave unset the same credentials as c.
SameCredentialsSet(c) ==
    {other \in Configs :
        /\ (other.FOGIS_USERNAME = "") = (c.FOGIS_USERNAME = "")
        /\ (other.FOGIS_PASSWORD = "") = (c.FOGIS_PASSWORD = "")}

\* The body of the /status answer the probe holds, had the service been
\* configured with c.
StatusBodyUnder(c) ==
    [ctx[Probe].body EXCEPT !.configuration = status_configuration(c)]

StatusAnswered == ctx[Probe].op = "status" /\ ctx[Probe].pc = "responded"

\* C31 as stated: the body of a /status answer is the same under every
\* configuration that sets or leaves unset the same credentials as the
\* configured one: no value of FOGIS_USERNAME or FOGIS_PASSWORD shows in it.
C31_StatusHidesCredentialValues ==
    StatusAnswered =>
        \A other \in SameCredentialsSet(config) :
            StatusBodyUnder(other) = ctx[Probe].body

\* C31: the body of a /status answer is the same under every configuration
\* with the same FOGIS_USERNAME that sets or leaves unset the password as
\* the configured one does: the password shows only as a flag, the username
\* shows as it is.
C31_StatusHidesPassword ==
    StatusAnswered =>
        /\ \A other \in SameCredentialsSet(config) :
               other.FOGIS_USERNAME = config.FOGIS_USERNAME
                   => StatusBodyUnder(other) = ctx[Probe].body
        /\ ctx[Probe].body.configuration.fogis_username = config.FOGIS_USERNAME
        /\ ctx[Probe].body.configuration.fogis_password_set
               = (config.FOGIS_PASSWORD # "")

\* A /status answer of a service whose password is set.
C31_Witness ==
    /\ StatusAnswered
    /\ config.FOGIS_PASSWORD = "one"
    /\ config.FOGIS_USERNAME = "other"

\* C32: a finished cycle went as far with MockMetrics as with the Metrics
\* object: when the client accepts the login call, the cycle asks it for the
\* match list, whichever metrics object is in use.
C32_MockMetricsSameBehaviour ==
    (pc = "done" /\ credentials /\ cycle.client_login \in {"True", "False"})
        => cycle.fetch # "none"

\* A manually triggered cycle is running on a worker thread.
ManualCycleInFlight == \E h \in Handlers : ctx[h].pc = "exec"

C33_WitnessStatus ==
    /\ ManualCycleInFlight
    /\ ctx[Probe].pc = "responded"
    /\ ctx[Probe].op = "status"

\* The steps of a cycle in the order run() takes them, with and without the
\* trigger step.
StepOrder(triggered) ==
    <<"load", "admission", "authenticate", "admission", "fetch", "diff">>
        \o (IF triggered THEN <<"trigger">> ELSE <<>>) \o <<"persist">>

IsPrefix(p, q) == Len(p) <= Len(q) /\ SubSeq(q, 1, Len(p)) = p

StepsOf(name) == {i \in 1..Len(cycle.steps) : cycle.steps[i] = name}

\* The cycle's fetch step returned True.
FetchSucceeded == cycle.fetch \notin {"none", "raise"}

\* C34, order: the steps taken so far are a prefix of load, admission,
\* authenticate, admission, fetch, diff, trigger (only if changes were
\* reported), persist; so every outbound call has an admission wait directly
\* before it and no trigger follows persist.
C34_StepsInOrder ==
    /\ IsPrefix(cycle.steps, StepOrder(has_changes))
          \/ (cycle.detect = "none" /\ IsPrefix(cycle.steps, StepOrder(FALSE)))
    /\ \A i \in StepsOf("authenticate") \cup StepsOf("fetch") :
          i > 1 /\ cycle.steps[i - 1] = "admission"
    /\ \A i \in StepsOf("persist") : \A j \in StepsOf("trigger") : j < i
    /\ StepsOf("trigger") # {} => has_changes

\* C34: the steps of a cycle are taken in order, and every finished cycle
\* whose fetch succeeded has run the persist step, with or without changes.
C34_OrderedAndAlwaysPersists ==
    /\ C34_StepsInOrder
    /\ (pc = "done" /\ FetchSucceeded) => StepsOf("persist") # {}

\* The client answered the fetch with a list of events that all carry an id.
WellFormedFetch ==
    /\ cycle.fetch \in {"dict", "list"}
    /\ current_matches.t = "list"
    /\ \A i \in 1..Len(current_matches.items) : HasId(current_matches.items[i])

\* C35: whatever baseline earlier cycles left on disk, a finished cycle with
\* credentials, an accepted login and a well-formed fetch reports success and
\* has run the persist step.
C35_NeverStuck ==
    (pc = "done" /\ credentials /\ cycle.login \in {"True", "False"}
        /\ WellFormedFetch)
        => result = "True" /\ cycle.save_calls = 1

\* C36: a POST /trigger is answered with 200 and status "success" only when
\* the cycle it ran reported success, that is, when main() returned True.
C36_SuccessOnlyIfCycleSucceeded ==
    \A h \in Handlers :
        (ctx[h].op = "trigger" /\ ctx[h].pc = "responded" /\ ctx[h].status = 200)
            => ctx[h].result = "True"

\* C37: once running is false no context can start a cycle: neither the
\* scheduler loop nor a POST /trigger handler that has passed its check of
\* running can go on into _execute_change_detection.
C37_NoCycleAfterStop ==
    ~running => \A c \in Contexts : ~ENABLED execute_begin(c)

\* C38: next_execution never moves backwards, and when a scheduled cycle is
\* over next_execution lies beyond the cron time that cycle was started for,
\* so that no cron time starts a second scheduled cycle.
C38_NextExecutionAdvances ==
    /\ [][next_execution' >= next_execution]_vars
    /\ [](run_mode = "service" =>
            (ctx[Scheduler].outcome # "none" =>
                next_execution > ctx[Scheduler].due))

\* The previous and current captures of a change record differ in the date,
\* the time, the venue, a status flag or a team id.
CapturesDiffer(r) ==
    \/ r.previous.date # r.current.date
    \/ r.previous.time # r.current.time
    \/ r.previous.venue # r.current.venue
    \/ r.previous.status # r.current.status
    \/ r.previous.home_team.id # r.current.home_team.id
    \/ r.previous.away_team.id # r.current.away_team.id

\* The ids in a captured referee list.
CapturedRefereeIds(side) == {side.referees[i].id : i \in 1..Len(side.referees)}

\* C39: every change record is self-consistent: with the basic flag its two
\* captures differ in a compared field, and with the referees flag the id sets
\* of its two referee lists differ.
C39_RecordSelfConsistent ==
    Compared =>
        \A r \in ChangeRecords :
            /\ r.changes.basic => CapturesDiffer(r)
            /\ r.changes.referees =>
                   CapturedRefereeIds(r.previous) # CapturedRefereeIds(r.current)

\* C40: every start of a cycle, scheduled or manual, raises execution_count
\* by one, so that it counts the cycles started so far, and sets
\* last_execution to the time of that start.
C40_CountsEveryCycle ==
    [][\A c \in Contexts :
          /\ (ctx[c].pc = "count" /\ ctx'[c].pc = "exec")
                 => execution_count' = execution_count + 1
          /\ (ctx[c].pc = "start" /\ ctx'[c].pc = "count")
                 => last_execution' = now]_vars

=========================================================================
